---------------------------- MODULE Spec2Model ----------------------------
(***************************************************************************)
(* Model of the exam-preparation relay worker (src/unnamed/part_000, the   *)
(* hardened variant; src/worker/src/index.js is the earlier variant with   *)
(* the same limiter, store handlers and extractor).                        *)
(*                                                                         *)
(* Specifications:                                                         *)
(*   Spec         fetch: auth check, rate limit, dispatch to the handlers  *)
(*   SpecLimiter  the rate-limit table under checkRateLimit and the sweep  *)
(*   SpecStore    the dashboard handlers over the result store             *)
(*   SpecGrade    the score computation of handleGrade                     *)
(*   SpecExtract  extractJSON on the answers of the model                  *)
(***************************************************************************)
EXTENDS Integers, Sequences, FiniteSets, TLC

(***************************************************************************)
(* Bounds of the model.                                                    *)
(***************************************************************************)
\* clock instants are w * RATE_LIMIT_WINDOW and the millisecond after, w \in 0..MaxWindows
MaxWindows == 1
\* SpecLimiter: checkRateLimit calls made by the client with an address
MaxCalls == 12
\* SpecLimiter: checkRateLimit calls made by the client without an address
MaxUnknownCalls == 1
\* SpecStore: records the store holds before a submit-result is sent
MaxStored == 2
\* SpecGrade: the largest number a model response gives as a score
MaxScore == 16
\* SpecExtract: tokens the model writes inside a string value
MaxTokens == 2
\* SpecSweep: the clock advances by at most this many windows
MaxSweepWindows == 20
\* SpecSweep: the largest value of requestCounter
MaxCounter == 101
\* SpecSweep: calls that are Rejected
MaxRejected == 1
\* SpecConcurrent: requests that arrive
MaxInFlight == 3

(***************************************************************************)
(* AUTH & RATE LIMITING: constants                                         *)
(***************************************************************************)
RATE_LIMIT_WINDOW == 60 * 1000
MAX_REQUESTS_PER_WINDOW == 10
\* cleanupRateLimitMap: the sweep runs when requestCounter % 100 === 0
CLEANUP_EVERY == 100
\* cleanupRateLimitMap: entries older than RATE_LIMIT_WINDOW * 5 are deleted
CLEANUP_AGE_FACTOR == 5
\* handleGrade: "Math.min(parseInt(...), 15)", the top of the NP scale
NP_MAX == 15
\* handleGrade: "Math.min(gesamt, 3)", the Sperrklausel cap
SPERRKLAUSEL_CAP == 3

VARIABLES
    now,             \* Date.now(), the worker's clock (ms)
    rateLimitMap,    \* Map ip -> {count, windowStart}
    requestCounter,  \* let requestCounter
    env,             \* the worker's bindings: ACCESS_PASSWORD, TEACHER_PASSWORD
    kv,              \* env.RESULTS_KV: the value stored under "all_results"
    resp,            \* the response to the latest request
    callLog,         \* history: per identity, the checkRateLimit calls made, in order
    rlResult,        \* history: outcome of the latest checkRateLimit call
    lastReq,         \* history: the latest request and its I/O outcomes
    steps,           \* history: the stages and I/O the latest request went through
    currentOrigin,   \* let currentOrigin: "set per request for CORS"
    inflight,        \* the requests in flight: where each is suspended, its locals
    limiterLog       \* history: checkRateLimit calls and sweeps counted, and the
                     \* table of a limiter that never sweeps

vars == <<now, rateLimitMap, requestCounter, env, kv, resp, callLog, rlResult,
          lastReq, steps, currentOrigin, inflight, limiterLog>>

\* The instants the clock is observed at: window boundaries and the ms after.
TimePoints == { w * RATE_LIMIT_WINDOW + o : w \in 0..MaxWindows, o \in {0, 1} }

\* request.headers.get("CF-Connecting-IP"): absent/empty (falsy) or an address
NoHeader == ""
IpHeaders == {NoHeader, "203.0.113.7"}

\* request.headers.get("CF-Connecting-IP") || "unknown"
clientIp(header) ==
    IF header = NoHeader THEN "unknown" ELSE header

Identities == { clientIp(h) : h \in IpHeaders }

Allowed == "Allowed"
Rejected == "Rejected"

\* mutants of checkRateLimit: the quota test off by one (>=); the expiry test
\* off by one (>=); a Rejected call that does not store the incremented count
checkRateLimit_QuotaGe(map, ip, t) ==
    IF ip \notin DOMAIN map
    THEN [map |-> map @@ (ip :> [count |-> 1, windowStart |-> t]),
          result |-> Allowed]
    ELSE LET entry == map[ip] IN
         IF t - entry.windowStart > RATE_LIMIT_WINDOW
         THEN [map |-> [map EXCEPT ![ip] = [count |-> 1, windowStart |-> t]],
               result |-> Allowed]
         ELSE LET count == entry.count + 1 IN
              [map |-> [map EXCEPT ![ip].count = count],
               result |-> IF count >= MAX_REQUESTS_PER_WINDOW
                          THEN Rejected ELSE Allowed]

checkRateLimit_ExpiryGe(map, ip, t) ==
    IF ip \notin DOMAIN map
    THEN [map |-> map @@ (ip :> [count |-> 1, windowStart |-> t]),
          result |-> Allowed]
    ELSE LET entry == map[ip] IN
         IF t - entry.windowStart >= RATE_LIMIT_WINDOW
         THEN [map |-> [map EXCEPT ![ip] = [count |-> 1, windowStart |-> t]],
               result |-> Allowed]
         ELSE LET count == entry.count + 1 IN
              [map |-> [map EXCEPT ![ip].count = count],
               result |-> IF count > MAX_REQUESTS_PER_WINDOW
                          THEN Rejected ELSE Allowed]

checkRateLimit_RejectUncounted(map, ip, t) ==
    IF ip \notin DOMAIN map
    THEN [map |-> map @@ (ip :> [count |-> 1, windowStart |-> t]),
          result |-> Allowed]
    ELSE LET entry == map[ip] IN
         IF t - entry.windowStart > RATE_LIMIT_WINDOW
         THEN [map |-> [map EXCEPT ![ip] = [count |-> 1, windowStart |-> t]],
               result |-> Allowed]
         ELSE LET count == entry.count + 1 IN
              IF count > MAX_REQUESTS_PER_WINDOW
              THEN [map |-> map, result |-> Rejected]
              ELSE [map |-> [map EXCEPT ![ip].count = count], result |-> Allowed]

\* the increment "entry.count++" of an Allowed call is lost
checkRateLimit_LostIncrement(map, ip, t) ==
    IF ip \notin DOMAIN map
    THEN [map |-> map @@ (ip :> [count |-> 1, windowStart |-> t]),
          result |-> Allowed]
    ELSE LET entry == map[ip] IN
         IF t - entry.windowStart > RATE_LIMIT_WINDOW
         THEN [map |-> [map EXCEPT ![ip] = [count |-> 1, windowStart |-> t]],
               result |-> Allowed]
         ELSE LET count == entry.count + 1 IN
              IF count > MAX_REQUESTS_PER_WINDOW
              THEN [map |-> [map EXCEPT ![ip].count = count], result |-> Rejected]
              ELSE [map |-> map, result |-> Allowed]

(***************************************************************************)
(* checkRateLimit(request): the table after the call and the outcome       *)
(* (null -> Allowed, the 429 response -> Rejected).                        *)
(***************************************************************************)
checkRateLimit(map, ip, t) ==
    IF ip \notin DOMAIN map
    THEN [map |-> map @@ (ip :> [count |-> 1, windowStart |-> t]),
          result |-> Allowed]
    ELSE LET entry == map[ip] IN
         IF t - entry.windowStart > RATE_LIMIT_WINDOW
         THEN [map |-> [map EXCEPT ![ip] = [count |-> 1, windowStart |-> t]],
               result |-> Allowed]
         ELSE LET count == entry.count + 1 IN
              [map |-> [map EXCEPT ![ip].count = count],
               result |-> IF count > MAX_REQUESTS_PER_WINDOW
                          THEN Rejected ELSE Allowed]

\* mutants of cleanupRateLimitMap: a sweep that deletes nothing; a sweep that
\* deletes every entry
cleanupRateLimitMap_KeepAll(map, counter, t) ==
    [requestCounter |-> counter + 1,
     swept |-> (counter + 1) % CLEANUP_EVERY = 0,
     map |-> map]

cleanupRateLimitMap_DeleteAll(map, counter, t) ==
    [requestCounter |-> counter + 1,
     swept |-> (counter + 1) % CLEANUP_EVERY = 0,
     map |-> IF (counter + 1) % CLEANUP_EVERY = 0 THEN [ip \in {} |-> 0] ELSE map]

(***************************************************************************)
(* cleanupRateLimitMap(): requestCounter++, and on every 100th call delete *)
(* the entries with now - windowStart > RATE_LIMIT_WINDOW * 5.             *)
(***************************************************************************)
cleanupRateLimitMap(map, counter, t) ==
    LET c == counter + 1
        stale == { ip \in DOMAIN map :
                     t - map[ip].windowStart > RATE_LIMIT_WINDOW * CLEANUP_AGE_FACTOR }
    IN [requestCounter |-> c,
        swept |-> c % CLEANUP_EVERY = 0,
        map |-> IF c % CLEANUP_EVERY = 0
                THEN [ip \in (DOMAIN map) \ stale |-> map[ip]]
                ELSE map]

(***************************************************************************)
(* fetch, steps 2: "const rateLimitError = checkRateLimit(request); if      *)
(* (rateLimitError) return rateLimitError; cleanupRateLimitMap();"         *)
(***************************************************************************)
rateLimitStep(map, counter, ip, t) ==
    LET chk == checkRateLimit(map, ip, t) IN
    IF chk.result = Rejected
    THEN [map |-> chk.map, requestCounter |-> counter, result |-> Rejected,
          swept |-> FALSE]
    ELSE LET cl == cleanupRateLimitMap(chk.map, counter, t) IN
         [map |-> cl.map, requestCounter |-> cl.requestCounter, result |-> Allowed,
          swept |-> cl.swept]

(***************************************************************************)
(* JSON values of request bodies: a tag and, under it, the value.          *)
(***************************************************************************)
JUndefined == [type |-> "undefined"]
JNull == [type |-> "null"]
JStr(s) == [type |-> "string", text |-> s]
JNum(n) == [type |-> "number", value |-> n]

\* JavaScript truthiness: !x is ~Truthy(x)
Truthy(x) ==
    CASE x.type = "string" -> Len(x.text) > 0
      [] x.type = "number" -> x.value # 0
      [] OTHER -> FALSE

\* typeof x === "string", typeof x === "number"
IsString(x) == x.type = "string"
IsNumber(x) == x.type = "number"

\* x == null (null or undefined)
IsNullish(x) == x.type \in {"undefined", "null"}

\* a || b  and  a ?? b
OrElse(a, b) == IF Truthy(a) THEN a ELSE b
Coalesce(a, b) == IF IsNullish(a) THEN b ELSE a

\* body.teacher_password !== secret, for a configured (non-empty) string secret
StrictNotEqual(x, secret) == ~(IsString(x) /\ x.text = secret)

RECURSIVE Repeat(_, _)
\* the string s repeated n times (an over-long input)
Repeat(s, n) ==
    IF n = 0 THEN ""
    ELSE IF n % 2 = 0 THEN LET half == Repeat(s, n \div 2) IN half \o half
    ELSE s \o Repeat(s, n - 1)

(***************************************************************************)
(* HELPERS: jsonResponse(data, status) and a thrown exception.             *)
(***************************************************************************)
\* thrown: the value is an exception on its way to fetch's catch, not a Response
jsonResponse(data, status) == [status |-> status, body |-> data, thrown |-> FALSE]
Throw(message) == [status |-> 0, body |-> [error |-> message], thrown |-> TRUE]

(***************************************************************************)
(* RESULTS_KV: the value under "all_results" is absent (null) or a blob.   *)
(* JSON.stringify / JSON.parse of the results array: the blob carries the  *)
(* array; JSON.parse throws on a blob that is not JSON.                    *)
(***************************************************************************)
NoValue == [kind |-> "null"]
JSONstringify(results) == [kind |-> "json", value |-> results]
Parses(raw) == raw.kind = "json"
JSONparse(raw) == raw.value

\* "let results = []; try { const raw = await env.RESULTS_KV.get(...);
\*  if (raw) results = JSON.parse(raw); } catch {}"
\* get: the outcome of the read ("ok" or "error", the read throwing)
readResults(store, get) ==
    IF get = "error" THEN <<>>
    ELSE IF store = NoValue THEN <<>>
    ELSE IF Parses(store) THEN JSONparse(store)
    ELSE <<>>

\* the sequence the store holds, as a strict reader sees it
StoredResults(store) == IF store = NoValue THEN <<>> ELSE JSONparse(store)

\* Number.prototype.toString(36) of a non-negative integer
Digits36 == <<"0","1","2","3","4","5","6","7","8","9","a","b","c","d","e","f","g","h",
              "i","j","k","l","m","n","o","p","q","r","s","t","u","v","w","x","y","z">>
RECURSIVE toString36(_)
toString36(n) ==
    IF n < 36 THEN Digits36[n + 1]
    ELSE toString36(n \div 36) \o Digits36[(n % 36) + 1]

\* new Date().toISOString() at clock value t: one string per instant
toISOString(t) == "T+" \o ToString(t) \o "ms"

\* Math.random().toString(36).slice(2, 6): up to four base-36 digits
RandomSuffixes == {"k3x9", "0q"}

(***************************************************************************)
(* HELPERS: extractJSON(text).  A text is a sequence of characters, each a *)
(* string of one character.                                                *)
(***************************************************************************)
\* \s of the regular expressions, and the white space JSON.parse and trim skip
IsSpace(c) == c \in {" ", "\n", "\r", "\t"}
\* \d
IsDigit(c) == c \in {"0", "1", "2", "3", "4", "5", "6", "7", "8", "9"}
\* a control character, which JSON.parse rejects inside a string literal
IsControl(c) == c \in {"\n", "\r", "\t", "\f"}

\* text[i], or the empty string beyond the ends of the text
CharAt(text, i) == IF i >= 1 /\ i <= Len(text) THEN text[i] ELSE ""

\* text.slice(i - 1)
From(text, i) == SubSeq(text, i, Len(text))

\* the literal pattern occurs in text at index i
HasAt(text, i, pattern) ==
    /\ i + Len(pattern) - 1 <= Len(text)
    /\ SubSeq(text, i, i + Len(pattern) - 1) = pattern

RECURSIVE skipSpace(_, _)
\* \s* at index i: the index of the first character at or after i that is not
\* white space (Len(text) + 1 when there is none)
skipSpace(text, i) ==
    IF IsSpace(CharAt(text, i)) THEN skipSpace(text, i + 1) ELSE i

RECURSIVE skipDigits(_, _)
\* \d* at index i
skipDigits(text, i) ==
    IF IsDigit(CharAt(text, i)) THEN skipDigits(text, i + 1) ELSE i

RECURSIVE replaceAll(_, _, _)
\* text.replace(/pattern/g, by) for a literal pattern
replaceAll(text, pattern, by) ==
    IF text = <<>> THEN <<>>
    ELSE IF HasAt(text, 1, pattern)
    THEN by \o replaceAll(From(text, Len(pattern) + 1), pattern, by)
    ELSE <<Head(text)>> \o replaceAll(Tail(text), pattern, by)

RECURSIVE stripFence(_, _)
\* text.replace(/marker\s*/g, empty): every occurrence of the marker, wherever it
\* is in the text, is removed together with the white space that follows it
stripFence(text, marker) ==
    IF text = <<>> THEN <<>>
    ELSE IF HasAt(text, 1, marker)
    THEN stripFence(From(text, skipSpace(text, Len(marker) + 1)), marker)
    ELSE <<Head(text)>> \o stripFence(Tail(text), marker)

RECURSIVE trimEnd(_)
trimEnd(text) ==
    IF text # <<>> /\ IsSpace(text[Len(text)])
    THEN trimEnd(SubSeq(text, 1, Len(text) - 1))
    ELSE text

\* String.prototype.trim
trim(text) == trimEnd(From(text, skipSpace(text, 1)))

\* the grave accent, the character of a fence marker: a character that a
\* string of this notation cannot hold, so it is written as a name
GRAVE == "GRAVE"

\* the two fence markers of step 1
FenceJson == <<GRAVE, GRAVE, GRAVE, "j", "s", "o", "n">>
Fence == <<GRAVE, GRAVE, GRAVE>>

(***************************************************************************)
(* JSON.parse of a text.  Values: JNull, JNum(n), and the tagged records   *)
(* below; an object is a function from its keys (texts) to its values, a   *)
(* repeated key keeping the last value.  A \u escape and a number with a   *)
(* fraction or an exponent are kept as written.                            *)
(***************************************************************************)
JText(chars) == [type |-> "string", chars |-> chars]
JBool(b) == [type |-> "boolean", value |-> b]
JObject(members) == [type |-> "object", members |-> members]
JArray(items) == [type |-> "array", items |-> items]

ParseFail == [ok |-> FALSE]
ParseOk(v, pos) == [ok |-> TRUE, value |-> v, pos |-> pos]

\* the character an escape sequence \c stands for
Unescape ==
    [c \in {"\"", "\\", "/", "b", "f", "n", "r", "t"} |->
        CASE c = "b" -> "\\b"
          [] c = "f" -> "\f"
          [] c = "n" -> "\n"
          [] c = "r" -> "\r"
          [] c = "t" -> "\t"
          [] OTHER -> c]

\* the index of the first quote, backslash or control character at or after i
\* (0 when there is none): the characters before it stand for themselves
nextSpecial(text, i) ==
    LET at == { j \in i..Len(text) : text[j] \in {"\"", "\\"} \/ IsControl(text[j]) } IN
    IF at = {} THEN 0 ELSE CHOOSE j \in at : \A k \in at : j <= k

RECURSIVE parseStringBody(_, _, _)
\* the characters of a string literal from index i (after the opening quote)
parseStringBody(text, i, acc) ==
    LET stop == nextSpecial(text, i)
        plain == acc \o SubSeq(text, i, stop - 1)
        e == CharAt(text, stop + 1)
    IN IF stop = 0 THEN ParseFail
       ELSE IF text[stop] = "\"" THEN ParseOk(plain, stop + 1)
       ELSE IF text[stop] # "\\" THEN ParseFail
       ELSE IF e \in DOMAIN Unescape
       THEN parseStringBody(text, stop + 2, Append(plain, Unescape[e]))
       ELSE IF e = "u" /\ \A k \in 2..5 :
                  \/ IsDigit(CharAt(text, stop + k))
                  \/ CharAt(text, stop + k) \in {"a", "b", "c", "d", "e", "f", "A", "B", "C", "D", "E", "F"}
       THEN parseStringBody(text, stop + 6,
                Append(plain, "\\u" \o text[stop + 2] \o text[stop + 3]
                                   \o text[stop + 4] \o text[stop + 5]))
       ELSE ParseFail

\* the value of a decimal digit
DigitValue(c) == CHOOSE n \in 0..9 : Digits36[n + 1] = c

RECURSIVE parseInt(_)
\* parseInt of a sequence of digits
parseInt(digits) ==
    IF digits = <<>> THEN 0
    ELSE parseInt(SubSeq(digits, 1, Len(digits) - 1)) * 10
             + DigitValue(digits[Len(digits)])

\* a JSON number at index i
parseNumber(text, i) ==
    LET s == IF CharAt(text, i) = "-" THEN i + 1 ELSE i
        intEnd == IF CharAt(text, s) = "0" THEN s + 1 ELSE skipDigits(text, s)
        hasFrac == CharAt(text, intEnd) = "."
        fracEnd == IF hasFrac THEN skipDigits(text, intEnd + 1) ELSE intEnd
        hasExp == CharAt(text, fracEnd) \in {"e", "E"}
        expStart == IF CharAt(text, fracEnd + 1) \in {"+", "-"}
                    THEN fracEnd + 2 ELSE fracEnd + 1
        expEnd == IF hasExp THEN skipDigits(text, expStart) ELSE fracEnd
    IN IF intEnd = s \/ (hasFrac /\ fracEnd = intEnd + 1) \/ (hasExp /\ expEnd = expStart)
       THEN ParseFail
       ELSE IF hasFrac \/ hasExp
       THEN ParseOk([type |-> "number", literal |-> SubSeq(text, i, expEnd - 1)], expEnd)
       ELSE ParseOk(JNum((IF s = i THEN 1 ELSE -1) * parseInt(SubSeq(text, s, intEnd - 1))),
                    intEnd)

RECURSIVE parseValue(_, _)
RECURSIVE parseMembers(_, _, _)
RECURSIVE parseElements(_, _, _)

\* the members of an object from index i (after a brace or comma), added to acc
parseMembers(text, i, acc) ==
    LET k == skipSpace(text, i)
        key == parseStringBody(text, k + 1, <<>>)
        c == skipSpace(text, key.pos)
        v == parseValue(text, c + 1)
        d == skipSpace(text, v.pos)
    IN IF CharAt(text, k) # "\"" \/ ~key.ok \/ CharAt(text, c) # ":" \/ ~v.ok
       THEN ParseFail
       ELSE IF CharAt(text, d) = ","
       THEN parseMembers(text, d + 1, (key.value :> v.value) @@ acc)
       ELSE IF CharAt(text, d) = "}"
       THEN ParseOk(JObject((key.value :> v.value) @@ acc), d + 1)
       ELSE ParseFail

\* the elements of an array from index i (after a bracket or comma), added to acc
parseElements(text, i, acc) ==
    LET v == parseValue(text, i)
        d == skipSpace(text, v.pos)
    IN IF ~v.ok THEN ParseFail
       ELSE IF CharAt(text, d) = ","
       THEN parseElements(text, d + 1, Append(acc, v.value))
       ELSE IF CharAt(text, d) = "]"
       THEN ParseOk(JArray(Append(acc, v.value)), d + 1)
       ELSE ParseFail

\* a JSON value at index i, white space before it skipped
parseValue(text, i) ==
    LET s == skipSpace(text, i)
        c == CharAt(text, s)
    IN CASE c = "{" ->
              IF CharAt(text, skipSpace(text, s + 1)) = "}"
              THEN ParseOk(JObject(<<>>), skipSpace(text, s + 1) + 1)
              ELSE parseMembers(text, s + 1, <<>>)
         [] c = "[" ->
              IF CharAt(text, skipSpace(text, s + 1)) = "]"
              THEN ParseOk(JArray(<<>>), skipSpace(text, s + 1) + 1)
              ELSE parseElements(text, s + 1, <<>>)
         [] c = "\"" ->
              LET str == parseStringBody(text, s + 1, <<>>) IN
              IF str.ok THEN ParseOk(JText(str.value), str.pos) ELSE ParseFail
         [] c = "-" \/ IsDigit(c) -> parseNumber(text, s)
         [] HasAt(text, s, <<"t", "r", "u", "e">>) -> ParseOk(JBool(TRUE), s + 4)
         [] HasAt(text, s, <<"f", "a", "l", "s", "e">>) -> ParseOk(JBool(FALSE), s + 5)
         [] HasAt(text, s, <<"n", "u", "l", "l">>) -> ParseOk(JNull, s + 4)
         [] OTHER -> ParseFail

\* JSON.parse(text): ok is FALSE when it throws
JSONparseText(text) ==
    LET r == parseValue(text, 1) IN
    IF r.ok /\ skipSpace(text, r.pos) > Len(text) THEN r ELSE ParseFail

(***************************************************************************)
(* extractJSON, steps 3 to 6                                               *)
(***************************************************************************)
NoMatchText == [matched |-> FALSE]

\* step 3: the match of an opening brace, anything, a closing brace: from the
\* first opening brace to the last closing brace
matchObject(clean) ==
    LET opens == { i \in 1..Len(clean) : clean[i] = "{" }
        first == CHOOSE i \in opens : \A j \in opens : i <= j
        closes == { i \in 1..Len(clean) : clean[i] = "}" /\ i > first }
        last == CHOOSE i \in closes : \A j \in closes : j <= i
    IN IF opens = {} \/ closes = {} THEN NoMatchText
       ELSE [matched |-> TRUE, text |-> SubSeq(clean, first, last)]

RECURSIVE closingQuote(_, _)
\* the lazy value of steps 4 to 6: the index of the first quote at or after i
\* that is followed by optional white space and a comma or a closing brace
\* (0 when there is none)
closingQuote(text, i) ==
    IF i > Len(text) THEN 0
    ELSE IF text[i] = "\"" /\ CharAt(text, skipSpace(text, i + 1)) \in {",", "}"}
    THEN i
    ELSE closingQuote(text, i + 1)

\* step 4: the pattern <colon, white space, quoted value, white space, comma or
\* closing brace> matched at index i; the value is the shortest possible
valueMatch(text, i) ==
    LET open == skipSpace(text, i + 1)
        close == closingQuote(text, open + 1)
    IN IF CharAt(text, i) = ":" /\ CharAt(text, open) = "\"" /\ close # 0
       THEN [matched |-> TRUE, val |-> SubSeq(text, open + 1, close - 1),
             end |-> skipSpace(text, close + 1)]
       ELSE NoMatchText

\* step 4: the newline, carriage return and tab characters of val replaced by
\* their two-character escapes
escapeControls(val) ==
    replaceAll(replaceAll(replaceAll(val, <<"\n">>, <<"\\", "n">>),
                          <<"\r">>, <<"\\", "r">>),
               <<"\t">>, <<"\\", "t">>)

RECURSIVE repairNewlines(_, _)
\* step 4: the replace over the text from index i on; every match becomes
\* colon, space, quote, the fixed value, quote, and the captured end
repairNewlines(text, i) ==
    IF i > Len(text) THEN <<>>
    ELSE LET m == valueMatch(text, i) IN
         IF m.matched
         THEN <<":", " ", "\"">> \o escapeControls(m.val) \o <<"\"", text[m.end]>>
                  \o repairNewlines(text, m.end + 1)
         ELSE <<text[i]>> \o repairNewlines(text, i + 1)

\* the index of the first quote at or after i (0 when there is none)
nextQuote(text, i) ==
    LET quotes == { j \in i..Len(text) : text[j] = "\"" } IN
    IF quotes = {} THEN 0 ELSE CHOOSE j \in quotes : \A k \in quotes : j <= k

\* step 5: the pattern <opening brace or comma, quoted non-empty key, colon,
\* quoted value, comma or closing brace> (white space allowed in between)
\* matched at index i; the value is the shortest possible
pairMatch(text, i) ==
    LET keyOpen == skipSpace(text, i + 1)
        keyClose == nextQuote(text, keyOpen + 1)
        colon == skipSpace(text, keyClose + 1)
        open == skipSpace(text, colon + 1)
        close == closingQuote(text, open + 1)
    IN IF /\ CharAt(text, i) \in {"{", ","}
          /\ CharAt(text, keyOpen) = "\""
          /\ keyClose > keyOpen + 1
          /\ CharAt(text, colon) = ":"
          /\ CharAt(text, open) = "\""
          /\ close # 0
       THEN [matched |-> TRUE, pre |-> SubSeq(text, i, open),
             val |-> SubSeq(text, open + 1, close - 1),
             post |-> SubSeq(text, close, skipSpace(text, close + 1)),
             end |-> skipSpace(text, close + 1)]
       ELSE NoMatchText

\* step 5: backslashes doubled, quotes escaped, \n and \t escaped, \r dropped
escapeQuotes(val) ==
    replaceAll(
        replaceAll(
            replaceAll(
                replaceAll(replaceAll(val, <<"\\">>, <<"\\", "\\">>),
                           <<"\"">>, <<"\\", "\"">>),
                <<"\n">>, <<"\\", "n">>),
            <<"\r">>, <<>>),
        <<"\t">>, <<"\\", "t">>)

RECURSIVE repairQuotes(_, _)
\* step 5: the replace over the text from index i on; every match becomes
\* pre + fixed + post
repairQuotes(text, i) ==
    IF i > Len(text) THEN <<>>
    ELSE LET m == pairMatch(text, i) IN
         IF m.matched
         THEN m.pre \o escapeQuotes(m.val) \o m.post \o repairQuotes(text, m.end + 1)
         ELSE <<text[i]>> \o repairQuotes(text, i + 1)

\* step 6: the keys looked for with a string value
SalvageKeys ==
    { <<"h", "e", "a", "d", "l", "i", "n", "e">>,
      <<"s", "o", "u", "r", "c", "e", "_", "i", "n", "f", "o">>,
      <<"a", "r", "t", "i", "c", "l", "e", "_", "t", "e", "x", "t">>,
      <<"t", "a", "s", "k", "_", "i", "n", "s", "t", "r", "u", "c", "t", "i", "o", "n">>,
      <<"t", "a", "s", "k", "_", "1">>,
      <<"t", "a", "s", "k", "_", "2">>,
      <<"t", "a", "s", "k", "_", "3", "_", "1", "_", "q", "u", "o", "t", "e">>,
      <<"t", "a", "s", "k", "_", "3", "_", "1">>,
      <<"t", "a", "s", "k", "_", "3", "_", "2", "_", "s", "i", "t", "u", "a", "t", "i", "o", "n">>,
      <<"t", "a", "s", "k", "_", "3", "_", "2">>,
      <<"i", "n", "h", "a", "l", "t", "_", "n", "p">>,
      <<"s", "p", "r", "a", "c", "h", "e", "_", "n", "p">>,
      <<"g", "e", "s", "a", "m", "t", "_", "n", "p">>,
      <<"f", "e", "e", "d", "b", "a", "c", "k">>,
      <<"c", "o", "r", "r", "e", "c", "t", "i", "o", "n", "s">> }

\* step 6: the keys looked for with a numeric value
SalvageNumericKeys ==
    { <<"i", "n", "h", "a", "l", "t", "_", "n", "p">>,
      <<"s", "p", "r", "a", "c", "h", "e", "_", "n", "p">>,
      <<"g", "e", "s", "a", "m", "t", "_", "n", "p">>,
      <<"c", "o", "n", "t", "e", "n", "t", "_", "t", "e", "x", "t", "s", "t", "r", "u", "c", "t", "u", "r", "e">>,
      <<"l", "a", "n", "g", "u", "a", "g", "e">>,
      <<"t", "o", "t", "a", "l">> }

\* the least element of a non-empty set of indices
MinIndex(S) == CHOOSE i \in S : \A j \in S : i <= j

\* step 6: the pattern <quoted key, colon, quoted value, comma or closing
\* brace> matched at index i of clean
keyStringMatch(clean, key, i) ==
    LET colon == skipSpace(clean, i + Len(key) + 2)
        open == skipSpace(clean, colon + 1)
        close == closingQuote(clean, open + 1)
    IN IF /\ HasAt(clean, i, <<"\"">> \o key \o <<"\"">>)
          /\ CharAt(clean, colon) = ":"
          /\ CharAt(clean, open) = "\""
          /\ close # 0
       THEN [matched |-> TRUE, val |-> SubSeq(clean, open + 1, close - 1)]
       ELSE NoMatchText

\* step 6: the pattern <quoted key, colon, digits> matched at index i of clean
keyNumberMatch(clean, key, i) ==
    LET colon == skipSpace(clean, i + Len(key) + 2)
        first == skipSpace(clean, colon + 1)
    IN IF /\ HasAt(clean, i, <<"\"">> \o key \o <<"\"">>)
          /\ CharAt(clean, colon) = ":"
          /\ IsDigit(CharAt(clean, first))
       THEN [matched |-> TRUE, val |-> SubSeq(clean, first, skipDigits(clean, first) - 1)]
       ELSE NoMatchText

\* clean.match(re): the leftmost match
firstStringMatch(clean, key) ==
    LET at == { i \in 1..Len(clean) : keyStringMatch(clean, key, i).matched } IN
    IF at = {} THEN NoMatchText ELSE keyStringMatch(clean, key, MinIndex(at))

firstNumberMatch(clean, key) ==
    LET at == { i \in 1..Len(clean) : keyNumberMatch(clean, key, i).matched } IN
    IF at = {} THEN NoMatchText ELSE keyNumberMatch(clean, key, MinIndex(at))

\* step 6: the object built from the keys found; a numeric match replaces the
\* string match of the same key
salvage(clean) ==
    LET strings == { k \in SalvageKeys : firstStringMatch(clean, k).matched }
        numbers == { k \in SalvageNumericKeys : firstNumberMatch(clean, k).matched }
    IN [k \in strings \cup numbers |->
           IF k \in numbers
           THEN JNum(parseInt(firstNumberMatch(clean, k).val))
           ELSE JText(replaceAll(replaceAll(firstStringMatch(clean, k).val,
                                            <<"\\", "n">>, <<"\n">>),
                                 <<"\\", "\"">>, <<"\"">>))]

\* what extractJSON returns (step: the step that produced the value) or throws
Returned(v, step) == [thrown |-> FALSE, value |-> v, step |-> step]
NoValidJson == [thrown |-> TRUE, message |-> "Model did not return valid JSON."]

\* mutants of extractJSON: the quote repair of step 5 is tried before the
\* newline repair of step 4; one salvaged key is enough for step 6
extractJSON_QuotesFirst(text) ==
    LET clean == trim(stripFence(stripFence(text, FenceJson), Fence))
        direct == JSONparseText(clean)
        match == matchObject(clean)
        isolated == JSONparseText(match.text)
        repaired4 == JSONparseText(repairNewlines(match.text, 1))
        repaired5 == JSONparseText(repairQuotes(match.text, 1))
        obj == salvage(clean)
    IN IF direct.ok THEN Returned(direct.value, 2)
       ELSE IF ~match.matched THEN NoValidJson
       ELSE IF isolated.ok THEN Returned(isolated.value, 3)
       ELSE IF repaired5.ok THEN Returned(repaired5.value, 5)
       ELSE IF repaired4.ok THEN Returned(repaired4.value, 4)
       ELSE IF Cardinality(DOMAIN obj) >= 2 THEN Returned(JObject(obj), 6)
       ELSE NoValidJson

extractJSON_OneKeyEnough(text) ==
    LET clean == trim(stripFence(stripFence(text, FenceJson), Fence))
        direct == JSONparseText(clean)
        match == matchObject(clean)
        isolated == JSONparseText(match.text)
        repaired4 == JSONparseText(repairNewlines(match.text, 1))
        repaired5 == JSONparseText(repairQuotes(match.text, 1))
        obj == salvage(clean)
    IN IF direct.ok THEN Returned(direct.value, 2)
       ELSE IF ~match.matched THEN NoValidJson
       ELSE IF isolated.ok THEN Returned(isolated.value, 3)
       ELSE IF repaired4.ok THEN Returned(repaired4.value, 4)
       ELSE IF repaired5.ok THEN Returned(repaired5.value, 5)
       ELSE IF Cardinality(DOMAIN obj) >= 1 THEN Returned(JObject(obj), 6)
       ELSE NoValidJson

(***************************************************************************)
(* extractJSON(text)                                                       *)
(***************************************************************************)
extractJSON(text) ==
    LET clean == trim(stripFence(stripFence(text, FenceJson), Fence))
        direct == JSONparseText(clean)
        match == matchObject(clean)
        isolated == JSONparseText(match.text)
        repaired4 == JSONparseText(repairNewlines(match.text, 1))
        repaired5 == JSONparseText(repairQuotes(match.text, 1))
        obj == salvage(clean)
    IN IF direct.ok THEN Returned(direct.value, 2)
       ELSE IF ~match.matched THEN NoValidJson
       ELSE IF isolated.ok THEN Returned(isolated.value, 3)
       ELSE IF repaired4.ok THEN Returned(repaired4.value, 4)
       ELSE IF repaired5.ok THEN Returned(repaired5.value, 5)
       ELSE IF Cardinality(DOMAIN obj) >= 2 THEN Returned(JObject(obj), 6)
       ELSE NoValidJson

(***************************************************************************)
(* DASHBOARD: SUBMIT RESULT.  io: get/put outcomes and the random suffix.  *)
(* Returns the response, the store afterwards and the I/O steps made.      *)
(***************************************************************************)
newResult(body, t, rnd) ==
    [id |-> toString36(t) \o rnd,
     student_name |-> body.student_name,
     course |-> OrElse(body.course, JStr("")),
     type |-> OrElse(body.type, JStr("mediation")),
     topic |-> OrElse(body.topic, JStr("-")),       \* the source's default is a dash
     content |-> Coalesce(body.content, JNull),
     language |-> Coalesce(body.language, JNull),
     total |-> body.total,
     date |-> OrElse(body.date, JStr(toISOString(t)))]

handleSubmitResult(body, store, io, t) ==
    IF body.kind = "badjson"
    THEN [resp |-> Throw("request.json"), store |-> store, steps |-> <<>>]
    ELSE IF ~Truthy(body.student_name) \/ ~IsString(body.student_name)
            \/ Len(body.student_name.text) > 200
    THEN [resp |-> jsonResponse([error |-> "student_name"], 400),
          store |-> store, steps |-> <<>>]
    ELSE IF IsNullish(body.total) \/ ~IsNumber(body.total)
            \/ body.total.value < 0 \/ body.total.value > 15
    THEN [resp |-> jsonResponse([error |-> "total"], 400),
          store |-> store, steps |-> <<>>]
    ELSE IF Truthy(body.course) /\ (~IsString(body.course) \/ Len(body.course.text) > 50)
    THEN [resp |-> jsonResponse([error |-> "course"], 400),
          store |-> store, steps |-> <<>>]
    ELSE IF Truthy(body.topic) /\ (~IsString(body.topic) \/ Len(body.topic.text) > 500)
    THEN [resp |-> jsonResponse([error |-> "topic"], 400),
          store |-> store, steps |-> <<>>]
    ELSE LET results == Append(readResults(store, io.get), newResult(body, t, io.rnd)) IN
         IF io.put = "error"
         THEN [resp |-> Throw("RESULTS_KV.put"), store |-> store,
               steps |-> <<"kvGet", "kvPut">>]
         ELSE [resp |-> jsonResponse([success |-> TRUE, count |-> Len(results)], 200),
               store |-> JSONstringify(results),
               steps |-> <<"kvGet", "kvPut">>]

(***************************************************************************)
(* DASHBOARD: GET RESULTS                                                  *)
(***************************************************************************)
handleGetResults(body, store, io, teacherPassword) ==
    IF body.kind = "badjson"
    THEN [resp |-> Throw("request.json"), store |-> store, steps |-> <<>>]
    ELSE IF teacherPassword = ""
    THEN [resp |-> jsonResponse([error |-> "Server-Konfigurationsfehler."], 500),
          store |-> store, steps |-> <<>>]
    ELSE IF StrictNotEqual(body.teacher_password, teacherPassword)
    THEN [resp |-> jsonResponse([error |-> "Falsches Lehrer-Passwort."], 401),
          store |-> store, steps |-> <<>>]
    ELSE [resp |-> jsonResponse([results |-> readResults(store, io.get)], 200),
          store |-> store, steps |-> <<"kvGet">>]

(***************************************************************************)
(* DASHBOARD: DELETE RESULT                                                *)
(***************************************************************************)
\* results.filter(r => r.id !== result_id)
filterOut(results, resultId) ==
    SelectSeq(results, LAMBDA r : r.id # resultId)

\* mutant of handleDeleteResult: the teacher credential is not compared
handleDeleteResult_NoCredentialCheck(body, store, io, teacherPassword) ==
    IF body.kind = "badjson"
    THEN [resp |-> Throw("request.json"), store |-> store, steps |-> <<>>]
    ELSE IF ~Truthy(body.result_id) \/ ~IsString(body.result_id)
            \/ Len(body.result_id.text) > 100
    THEN [resp |-> jsonResponse([error |-> "result_id"], 400),
          store |-> store, steps |-> <<>>]
    ELSE IF teacherPassword = ""
    THEN [resp |-> jsonResponse([error |-> "Server-Konfigurationsfehler."], 500),
          store |-> store, steps |-> <<>>]
    ELSE LET results == filterOut(readResults(store, io.get), body.result_id.text) IN
         IF io.put = "error"
         THEN [resp |-> Throw("RESULTS_KV.put"), store |-> store,
               steps |-> <<"kvGet", "kvPut">>]
         ELSE [resp |-> jsonResponse([success |-> TRUE, count |-> Len(results)], 200),
               store |-> JSONstringify(results),
               steps |-> <<"kvGet", "kvPut">>]

handleDeleteResult(body, store, io, teacherPassword) ==
    IF body.kind = "badjson"
    THEN [resp |-> Throw("request.json"), store |-> store, steps |-> <<>>]
    ELSE IF ~Truthy(body.result_id) \/ ~IsString(body.result_id)
            \/ Len(body.result_id.text) > 100
    THEN [resp |-> jsonResponse([error |-> "result_id"], 400),
          store |-> store, steps |-> <<>>]
    ELSE IF teacherPassword = ""
    THEN [resp |-> jsonResponse([error |-> "Server-Konfigurationsfehler."], 500),
          store |-> store, steps |-> <<>>]
    ELSE IF StrictNotEqual(body.teacher_password, teacherPassword)
    THEN [resp |-> jsonResponse([error |-> "Falsches Lehrer-Passwort."], 401),
          store |-> store, steps |-> <<>>]
    ELSE LET results == filterOut(readResults(store, io.get), body.result_id.text) IN
         IF io.put = "error"
         THEN [resp |-> Throw("RESULTS_KV.put"), store |-> store,
               steps |-> <<"kvGet", "kvPut">>]
         ELSE [resp |-> jsonResponse([success |-> TRUE, count |-> Len(results)], 200),
               store |-> JSONstringify(results),
               steps |-> <<"kvGet", "kvPut">>]

\* fetch: "catch (err) { ... return new Response(..., { status: 500 ...}) }"
catchAll(r) ==
    IF r.thrown
    THEN jsonResponse([error |-> "Ein interner Fehler ist aufgetreten."], 500)
    ELSE r

EmptyMap == [ip \in {} |-> 0]

\* no request is in flight; nothing is logged of the limiter
NoneInFlight == <<>>
NoLimiterLog == [checks |-> 0, sweeps |-> 0, noSweepMap |-> EmptyMap]

\* the configured secrets; "" is an unset binding (falsy)
AccessSecret == "zugang"
TeacherSecret == "lehrer"
NoResponse == [status |-> 0, body |-> [none |-> TRUE], thrown |-> FALSE]
NoRequest == [route |-> "none"]

\* SpecLimiter: how many calls the client behind `header` makes at most
CallBudget(header) ==
    IF header = NoHeader THEN MaxUnknownCalls ELSE MaxCalls

(***************************************************************************)
(* SpecLimiter: the clock advances; authenticated /api/* requests arrive.  *)
(***************************************************************************)
LimiterInit ==
    /\ now = 0
    /\ rateLimitMap = EmptyMap
    /\ requestCounter = 0
    /\ callLog = [i \in Identities |-> <<>>]
    /\ rlResult = "none"
    /\ currentOrigin = ""
    /\ inflight = NoneInFlight
    /\ limiterLog = NoLimiterLog
    /\ env = [ACCESS_PASSWORD |-> AccessSecret, TEACHER_PASSWORD |-> TeacherSecret]
    /\ kv = NoValue
    /\ resp = NoResponse
    /\ lastReq = NoRequest
    /\ steps = <<>>

\* Date.now() is read later than before
Tick ==
    /\ \E t \in TimePoints : t > now /\ now' = t
    /\ UNCHANGED <<currentOrigin, inflight, limiterLog>>
    /\ UNCHANGED <<rateLimitMap, requestCounter, env, kv, resp, callLog, rlResult,
                   lastReq, steps>>

\* one authenticated /api/* request from the client behind `header`
LimiterRequest(header) ==
    LET ip == clientIp(header)
        r == rateLimitStep(rateLimitMap, requestCounter, ip, now)
    IN /\ Len(callLog[ip]) < CallBudget(header)
       /\ rateLimitMap' = r.map
       /\ requestCounter' = r.requestCounter
       /\ rlResult' = r.result
       /\ callLog' = [callLog EXCEPT ![ip] =
                         Append(@, [t |-> now, result |-> r.result,
                                    windowStart |-> r.map[ip].windowStart])]
       /\ UNCHANGED <<currentOrigin, inflight, limiterLog>>
       /\ UNCHANGED <<now, env, kv, resp, lastReq, steps>>

LimiterNext ==
    \/ Tick
    \/ \E h \in IpHeaders : LimiterRequest(h)

SpecLimiter == LimiterInit /\ [][LimiterNext]_vars

(***************************************************************************)
(* SpecSweep: the limiter over enough calls for the sweep to run.  The     *)
(* clock advances a window at a time; the client with an address uses its  *)
(* quota, the client without one comes back only after its entry is gone.  *)
(***************************************************************************)
\* may the client behind `header` call now: it has no entry; or, with an
\* address, its window ended, or its quota is not used up, or fewer than
\* MaxRejected calls were Rejected so far
MayCall(header) ==
    LET ip == clientIp(header) IN
    IF ip \notin DOMAIN rateLimitMap THEN TRUE
    ELSE IF header = NoHeader THEN FALSE
    ELSE IF now - rateLimitMap[ip].windowStart > RATE_LIMIT_WINDOW THEN TRUE
    ELSE IF rateLimitMap[ip].count < MAX_REQUESTS_PER_WINDOW THEN TRUE
    ELSE limiterLog.checks - requestCounter < MaxRejected

SweepInit ==
    /\ now = 0
    /\ rateLimitMap = EmptyMap
    /\ requestCounter = 0
    /\ callLog = [i \in Identities |-> <<>>]
    /\ rlResult = "none"
    /\ currentOrigin = ""
    /\ inflight = NoneInFlight
    /\ limiterLog = NoLimiterLog
    /\ env = [ACCESS_PASSWORD |-> AccessSecret, TEACHER_PASSWORD |-> TeacherSecret]
    /\ kv = NoValue
    /\ resp = NoResponse
    /\ lastReq = NoRequest
    /\ steps = <<>>

\* Date.now() is read a window later, the client with an address having used
\* its quota
SweepTick ==
    /\ now < MaxSweepWindows * RATE_LIMIT_WINDOW
    /\ \E h \in IpHeaders \ {NoHeader} :
           /\ clientIp(h) \in DOMAIN rateLimitMap
           /\ rateLimitMap[clientIp(h)].count >= MAX_REQUESTS_PER_WINDOW
    /\ now' = now + RATE_LIMIT_WINDOW
    /\ UNCHANGED <<rateLimitMap, requestCounter, env, kv, resp, callLog, rlResult,
                   lastReq, steps, currentOrigin, inflight, limiterLog>>

\* one authenticated /api/* request from the client behind `header`; beside
\* it, the same call on the table of a limiter without the sweep
SweepRequest(header) ==
    LET ip == clientIp(header)
        r == rateLimitStep(rateLimitMap, requestCounter, ip, now)
    IN /\ MayCall(header)
       /\ requestCounter < MaxCounter
       /\ rateLimitMap' = r.map
       /\ requestCounter' = r.requestCounter
       /\ rlResult' = r.result
       /\ lastReq' = [route |-> "limiter", ip |-> ip]
       /\ limiterLog' =
              [checks |-> limiterLog.checks + 1,
               sweeps |-> limiterLog.sweeps + (IF r.swept THEN 1 ELSE 0),
               noSweepMap |-> checkRateLimit(limiterLog.noSweepMap, ip, now).map]
       /\ UNCHANGED <<now, env, kv, resp, callLog, steps, currentOrigin, inflight>>

SweepNext ==
    \/ SweepTick
    \/ \E h \in IpHeaders : SweepRequest(h)

SpecSweep == SweepInit /\ [][SweepNext]_vars

\* SpecSweep with requests that keep arriving and a clock that keeps advancing,
\* as far as the bounds allow
SpecSweepFair == SpecSweep /\ WF_vars(SweepNext)

(***************************************************************************)
(* GRADE: the score computation of handleGrade.                            *)
(*                                                                         *)
(* A model response is described by what handleGrade reads from it:        *)
(*   kind "object":   extractJSON returned an object; its score fields are *)
(*                    absent, null or a number (integers are modelled)     *)
(*   kind "unparsed": the try block threw (extractJSON threw, or returned  *)
(*                    null); each fallback regex matched nothing or        *)
(*                    captured one or two digits                           *)
(***************************************************************************)
\* Math.round(x) for x given in tenths: halves go up
MathRound(tenths) ==
    IF tenths % 10 >= 5 THEN (tenths \div 10) + 1 ELSE tenths \div 10

\* mutant of weightedTenths: the two weights exchanged
weightedTenths_Swapped(inhalt, sprache) == inhalt * 6 + sprache * 4

\* inhalt * 0.4 + sprache * 0.6, in tenths (exact for integers: the sum is an
\* even number of tenths, so the double is never within rounding error of .5)
weightedTenths(inhalt, sprache) == inhalt * 4 + sprache * 6

\* Math.min(a, b)
MathMin(a, b) == IF a < b THEN a ELSE b

\* "gesamt = Math.round(inhalt * 0.4 + sprache * 0.6);
\*  if (inhalt === 0 || sprache === 0) gesamt = Math.min(gesamt, 3);"
computeTotal(inhalt, sprache) ==
    LET gesamt == MathRound(weightedTenths(inhalt, sprache)) IN
    IF inhalt = 0 \/ sprache = 0 THEN MathMin(gesamt, SPERRKLAUSEL_CAP) ELSE gesamt

\* the try block of handleGrade, parsed being an object
scoresFromObject(parsed) ==
    LET inhalt == Coalesce(parsed.inhalt_np, Coalesce(parsed.content_textstructure, JNull))
        sprache == Coalesce(parsed.sprache_np, Coalesce(parsed.language, JNull))
        gesamt == Coalesce(parsed.gesamt_np, JNull)
    IN [content_textstructure |-> inhalt,
        language |-> sprache,
        total |-> IF IsNullish(gesamt) /\ ~IsNullish(inhalt) /\ ~IsNullish(sprache)
                  THEN JNum(computeTotal(inhalt.value, sprache.value))
                  ELSE gesamt]

NoMatch == [matched |-> FALSE]
Match(n) == [matched |-> TRUE, digits |-> n]

\* "m ? Math.min(parseInt(m[1]), 15) : null"
clampCapture(m) == IF m.matched THEN JNum(MathMin(m.digits, NP_MAX)) ELSE JNull

\* the catch block of handleGrade: scores from the regex captures
scoresFromText(text) ==
    LET contentScore == clampCapture(text.contentMatch)
        langScore == clampCapture(text.langMatch)
        totalScore == clampCapture(text.totalMatch)
    IN [content_textstructure |-> contentScore,
        language |-> langScore,
        total |-> IF IsNullish(totalScore) /\ ~IsNullish(contentScore)
                     /\ ~IsNullish(langScore)
                  THEN JNum(computeTotal(contentScore.value, langScore.value))
                  ELSE totalScore]

\* handleGrade from "const openaiRes = await callOpenAI(...)" on: always a 200
gradeResponse(model) ==
    jsonResponse([scores |-> IF model.kind = "object"
                             THEN scoresFromObject(model)
                             ELSE scoresFromText(model)],
                 200)

\* the values a score field of the model's object takes
ScoreFields == {JUndefined, JNull} \cup { JNum(n) : n \in 0..MaxScore }
\* the values of the alternative keys content_textstructure and language
AltScoreFields == {JUndefined, JNum(0), JNum(NP_MAX)}
\* what a fallback regex captures: nothing, or one or two digits
Captures == {NoMatch} \cup { Match(n) : n \in 0..MaxScore }

ObjectResponses ==
    [kind : {"object"}, inhalt_np : ScoreFields, sprache_np : ScoreFields,
     gesamt_np : ScoreFields, content_textstructure : AltScoreFields,
     language : AltScoreFields]
TextResponses ==
    [kind : {"unparsed"}, contentMatch : Captures, langMatch : Captures,
     totalMatch : Captures]

(***************************************************************************)
(* SpecGrade: the model's response to one /api/grade request is drawn,     *)
(* then handleGrade computes the scores from it.                           *)
(***************************************************************************)
GradeInit ==
    /\ lastReq \in [route : {"/api/grade"}, model : ObjectResponses \cup TextResponses]
    /\ resp = NoResponse
    /\ steps = <<>>
    /\ now = 0
    /\ env = [ACCESS_PASSWORD |-> AccessSecret, TEACHER_PASSWORD |-> TeacherSecret]
    /\ kv = NoValue
    /\ rateLimitMap = EmptyMap
    /\ requestCounter = 0
    /\ callLog = [i \in Identities |-> <<>>]
    /\ rlResult = "none"
    /\ currentOrigin = ""
    /\ inflight = NoneInFlight
    /\ limiterLog = NoLimiterLog

GradeStep(kind) ==
    /\ resp = NoResponse
    /\ lastReq.model.kind = kind
    /\ resp' = gradeResponse(lastReq.model)
    /\ steps' = <<"modelCall">>
    /\ UNCHANGED <<currentOrigin, inflight, limiterLog>>
    /\ UNCHANGED <<lastReq, now, env, kv, rateLimitMap, requestCounter, callLog,
                   rlResult>>

\* the try block ran to its return
GradeObject == GradeStep("object")
\* the try block threw: the catch block's regex fallback
GradeText == GradeStep("unparsed")

GradeNext == GradeObject \/ GradeText

SpecGrade == GradeInit /\ [][GradeNext]_vars

(***************************************************************************)
(* SpecStore: the three dashboard handlers over RESULTS_KV, each request   *)
(* run from its first line to its response.                                *)
(***************************************************************************)
BadJson == [kind |-> "badjson"]

\* a well-formed /api/submit-result body
SubmitBody(name, total) ==
    [kind |-> "object", student_name |-> name, total |-> total,
     course |-> JUndefined, type |-> JUndefined, topic |-> JUndefined,
     content |-> JUndefined, language |-> JUndefined, date |-> JUndefined]

\* the bodies of /api/submit-result requests: two valid ones, and one per
\* validation rule that fails it
SubmitBodies ==
    { BadJson,
      SubmitBody(JStr("Ada"), JNum(7)),
      [SubmitBody(JStr("Bo"), JNum(0)) EXCEPT !.content = JNum(4), !.course = JStr("Q12")],
      SubmitBody(JUndefined, JNum(7)),
      SubmitBody(JStr(Repeat("x", 201)), JNum(7)),
      SubmitBody(JStr("Ada"), JUndefined),
      SubmitBody(JStr("Ada"), JStr("7")),
      SubmitBody(JStr("Ada"), JNum(16)),
      [SubmitBody(JStr("Ada"), JNum(7)) EXCEPT !.course = JStr(Repeat("c", 51))],
      [SubmitBody(JStr("Ada"), JNum(7)) EXCEPT !.topic = JStr(Repeat("t", 501))] }

\* teacher_password as sent: absent, the configured one, another one
TeacherPasswords == {JUndefined, JStr(TeacherSecret), JStr("geraten")}

\* the bodies of /api/results requests
ResultsBodies ==
    {BadJson} \cup [kind : {"object"}, teacher_password : TeacherPasswords]

\* the ids submit-result issues at clock value t
IssuedIds(t) == { toString36(t) \o r : r \in RandomSuffixes }

\* the bodies of /api/delete-result requests
DeleteBodies(t) ==
    {BadJson} \cup
    [kind : {"object"},
     teacher_password : TeacherPasswords,
     result_id : {JUndefined, JNum(5), JStr(Repeat("i", 101)), JStr("unbekannt")}
                   \cup { JStr(i) : i \in IssuedIds(t) }]

\* outcomes of a request's I/O: the store read, the store write, Math.random
SubmitIO == [get : {"ok", "error"}, put : {"ok", "error"}, rnd : RandomSuffixes]
ResultsIO == [get : {"ok", "error"}, put : {"none"}, rnd : {"none"}]
DeleteIO == [get : {"ok", "error"}, put : {"ok", "error"}, rnd : {"none"}]

StoreInit ==
    /\ now \in TimePoints
    /\ env \in [ACCESS_PASSWORD : {AccessSecret}, TEACHER_PASSWORD : {"", TeacherSecret}]
    /\ kv = NoValue
    /\ resp = NoResponse
    /\ lastReq = NoRequest
    /\ steps = <<>>
    /\ rateLimitMap = EmptyMap
    /\ requestCounter = 0
    /\ callLog = [i \in Identities |-> <<>>]
    /\ rlResult = "none"
    /\ currentOrigin = ""
    /\ inflight = NoneInFlight
    /\ limiterLog = NoLimiterLog

StoreStep(route, body, io, out) ==
    /\ resp' = catchAll(out.resp)
    /\ kv' = out.store
    /\ steps' = out.steps
    /\ lastReq' = [route |-> route, body |-> body, io |-> io]
    /\ UNCHANGED <<currentOrigin, inflight, limiterLog>>
    /\ UNCHANGED <<now, env, rateLimitMap, requestCounter, callLog, rlResult>>

SubmitResult ==
    \E body \in SubmitBodies, io \in SubmitIO :
        /\ Len(StoredResults(kv)) < MaxStored
        /\ StoreStep("/api/submit-result", body, io,
                     handleSubmitResult(body, kv, io, now))

GetResults ==
    \E body \in ResultsBodies, io \in ResultsIO :
        StoreStep("/api/results", body, io,
                  handleGetResults(body, kv, io, env.TEACHER_PASSWORD))

DeleteResult ==
    \E body \in DeleteBodies(now), io \in DeleteIO :
        StoreStep("/api/delete-result", body, io,
                  handleDeleteResult(body, kv, io, env.TEACHER_PASSWORD))

StoreNext == SubmitResult \/ GetResults \/ DeleteResult

SpecStore == StoreInit /\ [][StoreNext]_vars

(***************************************************************************)
(* The outbound model call (callOpenAI, and the vision call of handleOCR   *)
(* and handleParseTask).  io.model is its outcome: kind "error" when the   *)
(* call throws (response not ok), else the content of the first choice:    *)
(*   kind "text":      the text (handleOCR, handleModelAnswer)             *)
(*   kind "content":   a text, given by what extractJSON returns or throws *)
(*                     on it (handleGenerate, handleParseTask)             *)
(*   kinds "object", "unparsed": see GRADE (handleGrade)                   *)
(***************************************************************************)
ModelError == [kind |-> "error"]
ModelText(t) == [kind |-> "text", text |-> t]
ModelContent(extracted) == [kind |-> "content", extracted |-> extracted]

\* "const content = extractJSON(openaiRes); return jsonResponse(content);"
\* extracted: what extractJSON returned or threw
extractResponse(extracted) ==
    IF extracted.thrown THEN Throw(extracted.message)
    ELSE jsonResponse(extracted.value, 200)

\* "parseInt(x) || fallback" for x absent or an integer
parseIntOr(x, fallback) ==
    IF IsNumber(x) /\ x.value # 0 THEN x.value ELSE fallback

\* a 400 answered by a handler's input validation
invalid(store, field) ==
    [resp |-> jsonResponse([error |-> field], 400), store |-> store, steps |-> <<>>]

\* "const body = await request.json()" threw
badRequestJson(store) ==
    [resp |-> Throw("request.json"), store |-> store, steps |-> <<>>]

\* a handler's answer after its outbound model call
afterModelCall(store, r) ==
    [resp |-> r, store |-> store, steps |-> <<"modelCall">>]

(***************************************************************************)
(* GENERATE                                                                *)
(***************************************************************************)
handleGenerate(body, store, io) ==
    IF body.kind = "badjson" THEN badRequestJson(store)
    ELSE IF ~Truthy(body.prompt_template) \/ ~IsString(body.prompt_template)
    THEN invalid(store, "prompt_template")
    ELSE IF Len(body.prompt_template.text) > 10000
    THEN invalid(store, "prompt_template")
    ELSE IF Truthy(body.topic) /\ ~IsString(body.topic)
    THEN invalid(store, "topic")
    ELSE IF Truthy(body.topic) /\ Len(body.topic.text) > 500
    THEN invalid(store, "topic")
    ELSE IF parseIntOr(body.source_len_words, 600) < 100
            \/ parseIntOr(body.source_len_words, 600) > 2000
    THEN invalid(store, "source_len_words")
    ELSE afterModelCall(store, IF io.model.kind = "error"
                               THEN Throw("OpenAI error")
                               ELSE extractResponse(io.model.extracted))

(***************************************************************************)
(* GRADE: validation, the model call, then the score computation           *)
(***************************************************************************)
handleGrade(body, store, io) ==
    IF body.kind = "badjson" THEN badRequestJson(store)
    ELSE IF ~Truthy(body.source_text_de) \/ ~IsString(body.source_text_de)
    THEN invalid(store, "source_text_de")
    ELSE IF ~Truthy(body.task_en) \/ ~IsString(body.task_en)
    THEN invalid(store, "task_en")
    ELSE IF ~Truthy(body.student_text_en) \/ ~IsString(body.student_text_en)
    THEN invalid(store, "student_text_en")
    ELSE IF \/ Len(body.source_text_de.text) > 20000
            \/ Len(body.task_en.text) > 5000
            \/ Len(body.student_text_en.text) > 20000
    THEN invalid(store, "Eingabetext")
    ELSE IF Truthy(body.rubric_prompt) /\ IsString(body.rubric_prompt)
            /\ Len(body.rubric_prompt.text) > 20000
    THEN invalid(store, "rubric_prompt")
    ELSE afterModelCall(store, IF io.model.kind = "error"
                               THEN Throw("OpenAI error")
                               ELSE gradeResponse(io.model))

(***************************************************************************)
(* OCR                                                                     *)
(***************************************************************************)
handleOCR(body, store, io) ==
    IF body.kind = "badjson" THEN badRequestJson(store)
    ELSE IF ~Truthy(body.image_base64) \/ ~IsString(body.image_base64)
    THEN invalid(store, "image_base64")
    ELSE IF Len(body.image_base64.text) > 10 * 1024 * 1024
    THEN invalid(store, "image_base64")
    ELSE afterModelCall(store, IF io.model.kind = "error"
                               THEN Throw("OpenAI Vision error")
                               ELSE jsonResponse([text |-> io.model.text], 200))

(***************************************************************************)
(* PARSE TASK: body.images is absent or an array (a sequence) of values    *)
(***************************************************************************)
handleParseTask(body, store, io) ==
    IF body.kind = "badjson" THEN badRequestJson(store)
    ELSE IF body.images.type # "array" \/ Len(body.images.items) = 0
    THEN invalid(store, "images")
    ELSE IF Len(body.images.items) > 10
    THEN invalid(store, "images")
    ELSE IF \E n \in 1..Len(body.images.items) :
                \/ ~IsString(body.images.items[n])
                \/ Len(body.images.items[n].text) > 10 * 1024 * 1024
    THEN invalid(store, "images")
    ELSE afterModelCall(store, IF io.model.kind = "error"
                               THEN Throw("OpenAI error")
                               ELSE extractResponse(io.model.extracted))

(***************************************************************************)
(* MODEL ANSWER                                                            *)
(***************************************************************************)
handleModelAnswer(body, store, io) ==
    IF body.kind = "badjson" THEN badRequestJson(store)
    ELSE IF ~Truthy(body.source_text_de) \/ ~IsString(body.source_text_de)
    THEN invalid(store, "source_text_de")
    ELSE IF ~Truthy(body.task_en) \/ ~IsString(body.task_en)
    THEN invalid(store, "task_en")
    ELSE IF Len(body.source_text_de.text) > 20000 \/ Len(body.task_en.text) > 5000
    THEN invalid(store, "Eingabetext")
    ELSE afterModelCall(store, IF io.model.kind = "error"
                               THEN Throw("OpenAI error")
                               ELSE jsonResponse([model_answer |-> io.model.text], 200))

(***************************************************************************)
(* fetch(request, env).  A pathname is the sequence of its segments:       *)
(* "/api/verify" is <<"api", "verify">>, "/" is <<>>.                      *)
(***************************************************************************)
\* pathname.startsWith("/api/")
startsWithApi(pathname) == Len(pathname) >= 2 /\ pathname[1] = "api"

\* mutants of checkAuth: every request is let through; an unset secret falls
\* back to a default password
checkAuth_LetThrough(header, accessPassword) == NoResponse

checkAuth_DefaultPassword(header, accessPassword) ==
    IF header # (IF accessPassword = "" THEN "stanna2026" ELSE accessPassword)
    THEN jsonResponse([error |-> "Nicht autorisiert. Falsches Passwort."], 401)
    ELSE NoResponse

\* checkAuth(request, env): the error response, or NoResponse for null (auth OK)
checkAuth(header, accessPassword) ==
    IF accessPassword = ""
    THEN jsonResponse([error |-> "Server-Konfigurationsfehler."], 500)
    ELSE IF header # accessPassword
    THEN jsonResponse([error |-> "Nicht autorisiert. Falsches Passwort."], 401)
    ELSE NoResponse

\* checkRateLimit's error response
TooManyRequests == jsonResponse([error |-> "Zu viele Anfragen."], 429)

\* "return new Response(null, { headers: corsHeaders(origin) })"
Preflight == [status |-> 200, body |-> [none |-> TRUE], thrown |-> FALSE]

\* return new Response("Not Found", { status: 404 })
NotFound == [status |-> 404, body |-> [text |-> "Not Found"], thrown |-> FALSE]

\* a handler was called: its name goes in front of the steps it made
called(name, out) == [out EXCEPT !.steps = <<name>> \o @]

\* the chain of route tests of fetch
dispatch(request, e, store, t) ==
    LET pathname == request.pathname
        post == request.method = "POST"
    IN CASE pathname = <<"api", "verify">> /\ post ->
              [resp |-> jsonResponse([ok |-> TRUE], 200), store |-> store, steps |-> <<>>]
         [] pathname = <<"api", "generate">> /\ post ->
              called("handleGenerate", handleGenerate(request.body, store, request.io))
         [] pathname = <<"api", "grade">> /\ post ->
              called("handleGrade", handleGrade(request.body, store, request.io))
         [] pathname = <<"api", "ocr">> /\ post ->
              called("handleOCR", handleOCR(request.body, store, request.io))
         [] pathname = <<"api", "parse-task">> /\ post ->
              called("handleParseTask", handleParseTask(request.body, store, request.io))
         [] pathname = <<"api", "model-answer">> /\ post ->
              called("handleModelAnswer", handleModelAnswer(request.body, store, request.io))
         [] pathname = <<"api", "submit-result">> /\ post ->
              called("handleSubmitResult",
                     handleSubmitResult(request.body, store, request.io, t))
         [] pathname = <<"api", "results">> /\ post ->
              called("handleGetResults",
                     handleGetResults(request.body, store, request.io, e.TEACHER_PASSWORD))
         [] pathname = <<"api", "delete-result">> /\ post ->
              called("handleDeleteResult",
                     handleDeleteResult(request.body, store, request.io, e.TEACHER_PASSWORD))
         [] OTHER -> [resp |-> NotFound, store |-> store, steps |-> <<>>]

\* what fetch leaves behind: the response, the table and counter of the limiter,
\* the store, the steps taken and the outcome of checkRateLimit (if called)
fetched(r, map, counter, store, taken, rl) ==
    [resp |-> r, map |-> map, requestCounter |-> counter, store |-> store,
     steps |-> taken, rl |-> rl]

fetch(request, e, map, counter, store, t) ==
    LET authError == checkAuth(request.password, e.ACCESS_PASSWORD)
        rl == rateLimitStep(map, counter, clientIp(request.ip), t)
        out == dispatch(request, e, store, t)
    IN IF request.method = "OPTIONS"
       THEN fetched(Preflight, map, counter, store, <<>>, "none")
       ELSE IF ~startsWithApi(request.pathname)
       THEN fetched(catchAll(out.resp), map, counter, out.store,
                    <<"dispatch">> \o out.steps, "none")
       ELSE IF authError # NoResponse
       THEN fetched(authError, map, counter, store, <<"checkAuth">>, "none")
       ELSE IF rl.result = Rejected
       THEN fetched(TooManyRequests, rl.map, rl.requestCounter, store,
                    <<"checkAuth", "checkRateLimit">>, Rejected)
       ELSE fetched(catchAll(out.resp), rl.map, rl.requestCounter, out.store,
                    <<"checkAuth", "checkRateLimit", "cleanupRateLimitMap", "dispatch">>
                        \o out.steps,
                    Allowed)

(***************************************************************************)
(* Spec: requests arrive at fetch one after the other, each handled from   *)
(* its first line to its response, at one instant of the clock.            *)
(***************************************************************************)
Methods == {"POST", "GET", "OPTIONS"}

\* the nine routes, an unknown path under /api/, and the root path
Routes ==
    { <<"api", "verify">>, <<"api", "generate">>, <<"api", "grade">>, <<"api", "ocr">>,
      <<"api", "parse-task">>, <<"api", "model-answer">>, <<"api", "submit-result">>,
      <<"api", "results">>, <<"api", "delete-result">> }
Pathnames == Routes \cup { <<"api", "unknown">>, <<>> }

\* the outcomes of a request's I/O; a handler reads the ones it makes
NoIO == [model |-> ModelError, get |-> "ok", put |-> "ok", rnd |-> "k3x9"]
FetchIO(models, gets, puts) ==
    [model : models, get : gets, put : puts, rnd : {"k3x9"}]

\* contents the model returns: one extractJSON returns an object from, and one
\* it throws on
ModelContents ==
    { ModelContent(Returned(JObject(<<"a">> :> JNum(1)), 2)), ModelContent(NoValidJson) }

\* what handleGrade reads from the answer of the model: an object with both
\* sub-scores, and prose in which the fallback finds one score
GradeContents ==
    { [kind |-> "object", inhalt_np |-> JNum(4), sprache_np |-> JNum(6),
       gesamt_np |-> JUndefined, content_textstructure |-> JUndefined,
       language |-> JUndefined],
      [kind |-> "unparsed", contentMatch |-> Match(7), langMatch |-> NoMatch,
       totalMatch |-> NoMatch] }

GenerateBody(template) ==
    [kind |-> "object", prompt_template |-> template, topic |-> JUndefined,
     source_len_words |-> JUndefined]
GradeBody(student) ==
    [kind |-> "object", source_text_de |-> JStr("Quelle"), task_en |-> JStr("Task"),
     student_text_en |-> student, rubric_prompt |-> JUndefined]
OcrBody(image) == [kind |-> "object", image_base64 |-> image]
ParseTaskBody(images) == [kind |-> "object", images |-> images]
ModelAnswerBody(task) ==
    [kind |-> "object", source_text_de |-> JStr("Quelle"), task_en |-> task]
TeacherBody(password, id) ==
    [kind |-> "object", teacher_password |-> password, result_id |-> id]

\* per route, a well-formed body with the I/O outcomes its handler can meet
WellFormed(pathname, t) ==
    CASE pathname = <<"api", "generate">> ->
           { GenerateBody(JStr("Thema {topic}")) }
           \X FetchIO(ModelContents \cup {ModelError}, {"ok"}, {"ok"})
      [] pathname = <<"api", "grade">> ->
           { GradeBody(JStr("My text")) }
           \X FetchIO(GradeContents \cup {ModelError}, {"ok"}, {"ok"})
      [] pathname = <<"api", "ocr">> ->
           { OcrBody(JStr("data:image/png;base64,AAAA")) }
           \X FetchIO({ModelText(<<"H", "i">>), ModelError}, {"ok"}, {"ok"})
      [] pathname = <<"api", "parse-task">> ->
           { ParseTaskBody(JArray(<<JStr("data:image/png;base64,AAAA")>>)) }
           \X FetchIO(ModelContents \cup {ModelError}, {"ok"}, {"ok"})
      [] pathname = <<"api", "model-answer">> ->
           { ModelAnswerBody(JStr("Task")) }
           \X FetchIO({ModelText(<<"O", "k">>), ModelError}, {"ok"}, {"ok"})
      [] pathname = <<"api", "submit-result">> ->
           { SubmitBody(JStr("Ada"), JNum(7)) }
           \X FetchIO({ModelError}, {"ok", "error"}, {"ok", "error"})
      [] pathname = <<"api", "results">> ->
           { TeacherBody(JStr(TeacherSecret), JUndefined) }
           \X FetchIO({ModelError}, {"ok", "error"}, {"ok"})
      [] pathname = <<"api", "delete-result">> ->
           { TeacherBody(JStr(TeacherSecret), JStr(toString36(t) \o "k3x9")) }
           \X FetchIO({ModelError}, {"ok", "error"}, {"ok", "error"})
      [] OTHER -> {}

\* per route, bodies its handler refuses
Refused(pathname) ==
    CASE pathname = <<"api", "generate">> ->
           { GenerateBody(JUndefined),
             [GenerateBody(JStr("Thema")) EXCEPT !.source_len_words = JNum(50)] }
      [] pathname = <<"api", "grade">> -> { GradeBody(JUndefined) }
      [] pathname = <<"api", "ocr">> -> { OcrBody(JNum(1)) }
      [] pathname = <<"api", "parse-task">> ->
           { ParseTaskBody(JArray(<<>>)), ParseTaskBody(JUndefined) }
      [] pathname = <<"api", "model-answer">> -> { ModelAnswerBody(JStr("")) }
      [] pathname = <<"api", "submit-result">> -> { SubmitBody(JStr("Ada"), JNum(16)) }
      [] pathname = <<"api", "results">> -> { TeacherBody(JStr("geraten"), JUndefined) }
      [] pathname = <<"api", "delete-result">> ->
           { TeacherBody(JStr("geraten"), JStr("unbekannt")),
             TeacherBody(JStr(TeacherSecret), JUndefined) }
      [] OTHER -> {}

\* the one client of this specification
ClientIp == "203.0.113.7"

\* the requests at time t, all of one client:
\*   routing: every method and path with the right access password, the body
\*            not JSON
\*   handled: POST requests with the right access password and inputs of the
\*            route
\*   denied:  requests without the access password or with a wrong one (the
\*            default password of the earlier variant of checkAuth), to
\*            every path with a body that is not JSON, and to every route with
\*            well-formed input
Requests(t) ==
    LET routing ==
            [method : Methods, pathname : Pathnames, password : {AccessSecret},
             ip : {ClientIp}, body : {BadJson}, io : {NoIO}]
        handled ==
            UNION { { [method |-> "POST", pathname |-> p, password |-> AccessSecret,
                       ip |-> ClientIp, body |-> in[1], io |-> in[2]] :
                         in \in WellFormed(p, t) \cup (Refused(p) \X {NoIO}) } :
                    p \in Routes }
        denied ==
            [method : Methods, pathname : Pathnames, password : {"", "stanna2026"},
             ip : {ClientIp}, body : {BadJson}, io : {NoIO}]
            \cup
            UNION { { [method |-> "POST", pathname |-> p, password |-> "stanna2026",
                       ip |-> ClientIp, body |-> in[1], io |-> in[2]] :
                         in \in WellFormed(p, t) } :
                    p \in Routes }
    IN routing \cup handled \cup denied

Init ==
    /\ now = 0
    /\ env \in [ACCESS_PASSWORD : {"", AccessSecret}, TEACHER_PASSWORD : {TeacherSecret}]
    /\ rateLimitMap = EmptyMap
    /\ requestCounter = 0
    /\ kv = NoValue
    /\ resp = NoResponse
    /\ lastReq = NoRequest
    /\ steps = <<>>
    /\ callLog = [i \in Identities |-> <<>>]
    /\ rlResult = "none"
    /\ currentOrigin = ""
    /\ inflight = NoneInFlight
    /\ limiterLog = NoLimiterLog

\* one request, from "async fetch(request, env)" to its return
Request ==
    \E request \in Requests(now) :
        LET ip == clientIp(request.ip)
            out == fetch(request, env, rateLimitMap, requestCounter, kv, now)
        IN /\ Len(callLog[ip]) < CallBudget(request.ip)
           /\ (request.pathname = <<"api", "submit-result">>) =>
                  Len(StoredResults(kv)) < MaxStored
           /\ resp' = out.resp
           /\ rateLimitMap' = out.map
           /\ requestCounter' = out.requestCounter
           /\ kv' = out.store
           /\ steps' = out.steps
           /\ rlResult' = out.rl
           /\ callLog' = IF out.rl = "none" THEN callLog
                         ELSE [callLog EXCEPT ![ip] =
                                  Append(@, [t |-> now, result |-> out.rl,
                                             windowStart |-> out.map[ip].windowStart])]
           /\ lastReq' = request
           /\ UNCHANGED <<currentOrigin, inflight, limiterLog>>
           /\ UNCHANGED <<now, env>>

Next == Request

Spec == Init /\ [][Next]_vars

(***************************************************************************)
(* SpecConcurrent: requests to the result store in flight together in one  *)
(* worker instance.  A request runs from one await to the next in one      *)
(* step: fetch up to "await request.json()", the handler up to "await      *)
(* env.RESULTS_KV.get(...)", up to "await env.RESULTS_KV.put(...)", and to *)
(* its return.  A get reads the store when it completes, a put writes it   *)
(* when it completes.                                                      *)
(***************************************************************************)
ALLOWED_ORIGINS ==
    << "https://sanktannagymnasium.workers.dev",
       "https://sag-abi-mediation.sanktannagymnasium.workers.dev",
       "https://www.st-anna-gymnasium.de",
       "https://st-anna-gymnasium.de" >>

\* corsHeaders(origin)["Access-Control-Allow-Origin"]
corsHeaders(origin) ==
    IF \E n \in 1..Len(ALLOWED_ORIGINS) : ALLOWED_ORIGINS[n] = origin
    THEN origin
    ELSE ALLOWED_ORIGINS[1]

\* a response as sent: "headers: corsHeaders(currentOrigin)" of jsonResponse,
\* "headers: corsHeaders(origin)" of the preflight and of fetch's catch
withHeaders(r, origin) ==
    [status |-> r.status, body |-> r.body, allowOrigin |-> corsHeaders(origin)]

\* the request is suspended at `pc`; out: what its handler computed from the
\* store it read
Suspended(origin, request, pc, out) ==
    [origin |-> origin, request |-> request, pc |-> pc, out |-> out]

\* the request has returned the response r with the headers of `origin`
Answered(flight, r, origin) ==
    [flight EXCEPT !.pc = "done", !.out = withHeaders(r, origin)]

\* the response of a handler, a throw ending in fetch's catch, whose headers
\* are those of the request's own origin
answer(flight, r, current) ==
    IF r.thrown THEN Answered(flight, catchAll(r), flight.origin)
    ELSE Answered(flight, r, current)

\* the ids of the stored records
StoredIds(store) ==
    { StoredResults(store)[n].id : n \in 1..Len(StoredResults(store)) }

\* the requests that can arrive: a submit-result with a suffix Math.random has
\* not given yet, a delete-result of a stored record, a delete-result with a
\* wrong teacher password, a CORS preflight
Arriving ==
    LET used == { inflight[n].request.io.rnd : n \in 1..Len(inflight) }
        post(route, body, rnd) ==
            [method |-> "POST", pathname |-> <<"api", route>>,
             password |-> AccessSecret, ip |-> ClientIp, body |-> body,
             io |-> [model |-> ModelError, get |-> "ok", put |-> "ok", rnd |-> rnd]]
    IN { post("submit-result", SubmitBody(JStr("Ada"), JNum(7)), rnd) :
           rnd \in RandomSuffixes \ used }
       \cup { post("delete-result", TeacherBody(JStr(TeacherSecret), JStr(id)), "none") :
                id \in StoredIds(kv) }
       \cup { post("delete-result", TeacherBody(JStr("geraten"), JStr("unbekannt")), "none") }
       \cup { [method |-> "OPTIONS", pathname |-> <<"api", "submit-result">>,
               password |-> "", ip |-> ClientIp, body |-> BadJson, io |-> NoIO] }

\* the Origin headers of the requests: two of the allow-list, one not on it
Origins == { ALLOWED_ORIGINS[2], ALLOWED_ORIGINS[3], "https://fremd.example" }

\* the requests of the client the instance has answered before, all in the
\* window that started at 0 and all Allowed by checkRateLimit: none, or two
\* fewer than the quota
ServedBefore == {0, MAX_REQUESTS_PER_WINDOW - 2}

ConcurrentInit ==
    /\ now = 0
    /\ env = [ACCESS_PASSWORD |-> AccessSecret, TEACHER_PASSWORD |-> TeacherSecret]
    /\ \E served \in ServedBefore :
          /\ rateLimitMap = IF served = 0 THEN EmptyMap
                            ELSE ClientIp :> [count |-> served, windowStart |-> 0]
          /\ requestCounter = served
          /\ callLog = [i \in Identities |->
                           IF i = ClientIp
                           THEN [k \in 1..served |->
                                    [t |-> 0, result |-> Allowed, windowStart |-> 0]]
                           ELSE <<>>]
    /\ kv = NoValue
    /\ resp = NoResponse
    /\ lastReq = NoRequest
    /\ steps = <<>>
    /\ rlResult = "none"
    /\ currentOrigin = ""
    /\ inflight = NoneInFlight
    /\ limiterLog = NoLimiterLog

\* fetch from its first line to the first await: "currentOrigin = origin", the
\* preflight, checkAuth, checkRateLimit and cleanupRateLimitMap, and the
\* handler called, which suspends at "await request.json()"
Arrive ==
    \E origin \in Origins, request \in Arriving :
        LET authError == checkAuth(request.password, env.ACCESS_PASSWORD)
            rl == rateLimitStep(rateLimitMap, requestCounter, clientIp(request.ip), now)
            flight == Suspended(origin, request, "json", NoResponse)
            checked == request.method # "OPTIONS" /\ authError = NoResponse
        IN /\ Len(inflight) < MaxInFlight
           /\ currentOrigin' = origin
           /\ lastReq' = request
           /\ rateLimitMap' = IF checked THEN rl.map ELSE rateLimitMap
           /\ requestCounter' = IF checked THEN rl.requestCounter ELSE requestCounter
           /\ rlResult' = IF checked THEN rl.result ELSE "none"
           /\ callLog' = IF checked
                         THEN [callLog EXCEPT ![clientIp(request.ip)] =
                                  Append(@, [t |-> now, result |-> rl.result,
                                             windowStart |->
                                                 rl.map[clientIp(request.ip)].windowStart])]
                         ELSE callLog
           /\ inflight' = Append(inflight,
                  IF request.method = "OPTIONS" THEN Answered(flight, Preflight, origin)
                  ELSE IF authError # NoResponse THEN Answered(flight, authError, origin)
                  ELSE IF rl.result = Rejected THEN Answered(flight, TooManyRequests, origin)
                  ELSE flight)
           /\ UNCHANGED <<now, env, kv, resp, steps, limiterLog>>

\* request n resumes after "await request.json()": the handler validates the
\* body and answers, or suspends at "await env.RESULTS_KV.get(...)"
ResumeJson(n) ==
    LET flight == inflight[n]
        out == dispatch(flight.request, env, kv, now)
        reads == \E k \in 1..Len(out.steps) : out.steps[k] = "kvGet"
    IN /\ flight.pc = "json"
       /\ inflight' = [inflight EXCEPT ![n] =
              IF reads THEN [flight EXCEPT !.pc = "get"]
              ELSE answer(flight, out.resp, currentOrigin)]
       /\ resp' = IF reads THEN resp ELSE catchAll(out.resp)
       /\ UNCHANGED <<now, env, kv, rateLimitMap, requestCounter, lastReq, steps,
                      callLog, rlResult, currentOrigin, limiterLog>>

\* request n resumes after the get: the handler parses what the store holds,
\* pushes or filters, and suspends at "await env.RESULTS_KV.put(...)"
ResumeGet(n) ==
    LET flight == inflight[n]
        out == dispatch(flight.request, env, kv, now)
    IN /\ flight.pc = "get"
       /\ inflight' = [inflight EXCEPT ![n] = [flight EXCEPT !.pc = "put", !.out = out]]
       /\ UNCHANGED <<now, env, kv, resp, rateLimitMap, requestCounter, lastReq, steps,
                      callLog, rlResult, currentOrigin, limiterLog>>

\* request n resumes after the put, which has written the store: the handler
\* returns jsonResponse(...), whose headers are corsHeaders(currentOrigin)
ResumePut(n) ==
    LET flight == inflight[n] IN
    /\ flight.pc = "put"
    /\ kv' = flight.out.store
    /\ steps' = flight.out.steps
    /\ resp' = catchAll(flight.out.resp)
    /\ inflight' = [inflight EXCEPT ![n] = answer(flight, flight.out.resp, currentOrigin)]
    /\ UNCHANGED <<now, env, rateLimitMap, requestCounter, lastReq, callLog, rlResult,
                   currentOrigin, limiterLog>>

ConcurrentNext ==
    \/ Arrive
    \/ \E n \in 1..Len(inflight) : ResumeJson(n)
    \/ \E n \in 1..Len(inflight) : ResumeGet(n)
    \/ \E n \in 1..Len(inflight) : ResumePut(n)

SpecConcurrent == ConcurrentInit /\ [][ConcurrentNext]_vars

(***************************************************************************)
(* SpecExtract: the model's answer to one /api/parse-task request is       *)
(* drawn, then the handler passes it through extractJSON.                  *)
(***************************************************************************)
RECURSIVE TokenTexts(_)
\* the texts of at most n tokens; a token is what the model writes inside a
\* string value: a letter, a space, the fence markers, an escaped quote, a bare
\* quote, a line break, a quote and a comma
TokenTexts(n) ==
    IF n = 0 THEN { <<>> }
    ELSE LET shorter == TokenTexts(n - 1)
             tokens == { <<"x">>, <<" ">>, Fence, FenceJson, <<"\\", "\"">>,
                         <<"\"">>, <<"\n">>, <<"\"", ",">> }
         IN shorter \cup { s \o token : s \in shorter, token \in tokens }

\* the answers of the model: a text v of tokens, bare or as the string value of
\* an object with keys step 6 knows, {"feedback":"<v>","gesamt_np":7}, or with
\* another key, {"a":"<v>"}, or with one key step 6 knows, {"total":7,"a":"<v>"};
\* the object alone, after a fence marker or a word, and before a closing fence
\* marker
ExtractInputs ==
    LET known(v) ==
            <<"{", "\"", "f", "e", "e", "d", "b", "a", "c", "k", "\"", ":", "\"">> \o v
                \o <<"\"", ",", "\"", "g", "e", "s", "a", "m", "t", "_", "n", "p", "\"", ":", "7", "}">>
        other(v) == <<"{", "\"", "a", "\"", ":", "\"">> \o v \o <<"\"", "}">>
        single(v) ==
            <<"{", "\"", "t", "o", "t", "a", "l", "\"", ":", "7", ",">> \o Tail(other(v))
        prologues == { <<>>, FenceJson \o <<"\n">>, <<"O", "k", ":", " ">> }
        epilogues == { <<>>, <<"\n">> \o Fence }
    IN { pre \o body \o post :
           pre \in prologues, post \in epilogues,
           body \in UNION { {known(v), other(v), single(v), v} :
                             v \in TokenTexts(MaxTokens) } }

ExtractInit ==
    /\ lastReq \in [route : {"/api/parse-task"},
                    model : { ModelText(t) : t \in ExtractInputs }]
    /\ resp = NoResponse
    /\ steps = <<>>
    /\ now = 0
    /\ env = [ACCESS_PASSWORD |-> AccessSecret, TEACHER_PASSWORD |-> TeacherSecret]
    /\ kv = NoValue
    /\ rateLimitMap = EmptyMap
    /\ requestCounter = 0
    /\ callLog = [i \in Identities |-> <<>>]
    /\ rlResult = "none"
    /\ currentOrigin = ""
    /\ inflight = NoneInFlight
    /\ limiterLog = NoLimiterLog

\* "const parsed = extractJSON(text); return jsonResponse(parsed);", a throw
\* ending in the catch of fetch
Extract ==
    /\ resp = NoResponse
    /\ resp' = catchAll(extractResponse(extractJSON(lastReq.model.text)))
    /\ steps' = <<"modelCall">>
    /\ UNCHANGED <<currentOrigin, inflight, limiterLog>>
    /\ UNCHANGED <<lastReq, now, env, kv, rateLimitMap, requestCounter, callLog,
                   rlResult>>

ExtractNext == Extract

SpecExtract == ExtractInit /\ [][ExtractNext]_vars

(***************************************************************************)
(* Claims about the rate limiter (checked under SpecLimiter).              *)
(***************************************************************************)
\* the calls of `log` made at or after instant t0
CallsSince(log, t0) == { i \in 1..Len(log) : log[i].t >= t0 }

\* the Allowed calls of `log` made in the closed interval [a, b]
AllowedIn(log, a, b) ==
    { i \in 1..Len(log) : log[i].result = Allowed /\ a <= log[i].t /\ log[i].t <= b }

\* this step is a checkRateLimit call of identity ip
IsCallOf(ip) == callLog'[ip] # callLog[ip]

\* C1, for one step: the identity has an entry whose window started at t0 and
\* has made n calls since t0, so this call is request n + 1 of the window.
C1_Step(ip) ==
    (IsCallOf(ip) /\ ip \in DOMAIN rateLimitMap) =>
        LET t0 == rateLimitMap[ip].windowStart
            n == Cardinality(CallsSince(callLog[ip], t0))
        IN IF now - t0 <= RATE_LIMIT_WINDOW
           THEN /\ n >= 1
                /\ (n + 1 <= MAX_REQUESTS_PER_WINDOW) => rlResult' = Allowed
                /\ (n + 1 > MAX_REQUESTS_PER_WINDOW) => rlResult' = Rejected
           ELSE /\ rlResult' = Allowed
                /\ rateLimitMap'[ip] = [count |-> 1, windowStart |-> now]

\* C1: for a fixed identity with Q = 10 and W = 60000 ms, after the window starts
\* at t0 the 2nd..Q-th requests made while now - t0 <= W are Allowed, the
\* (Q+1)-th and every later one made while now - t0 <= W are Rejected, and the
\* first request with now - t0 > W is Allowed and sets count = 1, windowStart = now.
C1_WindowQuota == [][\A ip \in Identities : C1_Step(ip)]_vars

\* C1 witness: a client was Allowed Q times, Rejected on request Q + 1, and
\* Allowed again by a request that reset the window after W had elapsed.
C1_Witness ==
    \E ip \in Identities :
        LET log == callLog[ip] IN
        /\ Len(log) = MAX_REQUESTS_PER_WINDOW + 2
        /\ \A i \in 1..MAX_REQUESTS_PER_WINDOW : log[i].result = Allowed
        /\ log[MAX_REQUESTS_PER_WINDOW + 1].result = Rejected
        /\ log[MAX_REQUESTS_PER_WINDOW + 2].result = Allowed
        /\ log[MAX_REQUESTS_PER_WINDOW + 2].t - log[1].t > RATE_LIMIT_WINDOW
        /\ rateLimitMap[ip] = [count |-> 1, windowStart |-> now]

\* C2 as stated: for every identity and every time interval of length W, at
\* most Q requests of the identity made inside the interval get Allowed.
C2_RollingWindow ==
    \A ip \in Identities : \A a \in TimePoints :
        Cardinality(AllowedIn(callLog[ip], a, a + RATE_LIMIT_WINDOW))
            <= MAX_REQUESTS_PER_WINDOW

\* C2 amended: the window is fixed, not rolling: for every identity and every
\* window of its entry (the interval [windowStart, windowStart + W] of a value
\* windowStart the entry took), at most Q requests made inside it get Allowed.
C2_FixedWindow ==
    \A ip \in Identities : \A i \in 1..Len(callLog[ip]) :
        LET ws == callLog[ip][i].windowStart IN
        Cardinality(AllowedIn(callLog[ip], ws, ws + RATE_LIMIT_WINDOW))
            <= MAX_REQUESTS_PER_WINDOW

\* C2 witness: a window in which Q requests were Allowed and a further one was
\* Rejected.
C2_Witness ==
    \E ip \in Identities : \E i \in 1..Len(callLog[ip]) :
        LET ws == callLog[ip][i].windowStart IN
        /\ callLog[ip][i].result = Rejected
        /\ Cardinality(AllowedIn(callLog[ip], ws, ws + RATE_LIMIT_WINDOW))
               = MAX_REQUESTS_PER_WINDOW

\* C3, the state part: every entry has count >= 1, and count is the number of
\* checkRateLimit calls of the identity made at or after windowStart.
C3_CountInv ==
    \A ip \in DOMAIN rateLimitMap :
        /\ rateLimitMap[ip].count >= 1
        /\ rateLimitMap[ip].count =
               Cardinality(CallsSince(callLog[ip], rateLimitMap[ip].windowStart))

\* C3, the step part: a Rejected call adds exactly 1 to count and keeps windowStart.
C3_RejectedStep ==
    \A ip \in Identities :
        (IsCallOf(ip) /\ rlResult' = Rejected) =>
            /\ ip \in DOMAIN rateLimitMap
            /\ rateLimitMap'[ip].count = rateLimitMap[ip].count + 1
            /\ rateLimitMap'[ip].windowStart = rateLimitMap[ip].windowStart

\* C3: in every reachable state of the table (clock non-decreasing) each entry
\* has count >= 1 and count equals the number of checkRateLimit calls made for
\* the identity at or after windowStart, Rejected calls included; a Rejected
\* call increases count by exactly 1 and leaves windowStart unchanged.
C3_CountReflectsCalls == [](C3_CountInv) /\ [][C3_RejectedStep]_vars

\* C3 witness: an entry whose count exceeds the quota (Rejected calls counted)
\* beside another identity's entry with its own count.
C3_Witness ==
    /\ DOMAIN rateLimitMap = Identities
    /\ \E ip \in Identities : rateLimitMap[ip].count = MAX_REQUESTS_PER_WINDOW + 2
    /\ \E ip \in Identities : rateLimitMap[ip].count = 1
    /\ rlResult = Rejected

(***************************************************************************)
(* Claims about the result store (checked under SpecStore).                *)
(***************************************************************************)
\* the elements of a sequence
Range(seq) == { seq[i] : i \in 1..Len(seq) }

\* the latest request is a results / delete-result request that sent a
\* teacher_password other than the configured credential
WrongTeacherPassword(req) ==
    /\ req.route \in {"/api/results", "/api/delete-result"}
    /\ req.body.kind = "object"
    /\ env.TEACHER_PASSWORD # ""
    /\ StrictNotEqual(req.body.teacher_password, env.TEACHER_PASSWORD)

\* C5 as stated, for one step.  A successful submit-result stores the sequence
\* stored before with the new record appended and returns the new length; a
\* results request with the correct credential that follows a successful
\* submit-result returns a sequence containing the submitted record.
C5_Step ==
    /\ (lastReq'.route = "/api/submit-result" /\ resp'.status = 200) =>
           /\ StoredResults(kv') =
                  Append(StoredResults(kv),
                         newResult(lastReq'.body, now, lastReq'.io.rnd))
           /\ resp'.body.count = Len(StoredResults(kv'))
    /\ (/\ lastReq.route = "/api/submit-result" /\ resp.status = 200
        /\ lastReq'.route = "/api/results" /\ lastReq'.body.kind = "object"
        /\ env.TEACHER_PASSWORD # ""
        /\ ~StrictNotEqual(lastReq'.body.teacher_password, env.TEACHER_PASSWORD)) =>
           /\ resp'.status = 200
           /\ newResult(lastReq.body, now, lastReq.io.rnd) \in Range(resp'.body.results)

\* C5: after a successful submit-result, a results request with the correct
\* teacher credential returns a sequence that contains the submitted record; the
\* stored sequence is the one stored before the submit with the new record
\* appended at the end, and the returned count equals the new length.
C5_SubmitAppends == [][C5_Step]_vars

\* C6 as stated, for one step: a delete-result request with the correct
\* credential and id x removes exactly the records with id x, keeps the others
\* in order, and changes nothing when no record has id x.
C6_Step ==
    (/\ lastReq'.route = "/api/delete-result" /\ lastReq'.body.kind = "object"
     /\ IsString(lastReq'.body.result_id) /\ resp'.status = 200) =>
        LET x == lastReq'.body.result_id.text IN
        /\ StoredResults(kv') = filterOut(StoredResults(kv), x)
        /\ (\A r \in Range(StoredResults(kv)) : r.id # x) =>
               StoredResults(kv') = StoredResults(kv)

\* C6: a delete-result request with the correct teacher credential and id x
\* removes from the stored sequence exactly the record whose id equals x and
\* leaves every other record present, unchanged and in the same relative order;
\* when no record has id x the stored sequence is unchanged.
C6_DeleteExact == [][C6_Step]_vars

\* C7 as stated, for one step: a wrong teacher_password is answered 401, the
\* response carries no stored record, the store is neither read nor written.
C7_Step ==
    WrongTeacherPassword(lastReq') =>
        /\ resp'.status = 401
        /\ "results" \notin DOMAIN resp'.body
        /\ kv' = kv
        /\ steps' = <<>>

\* C7 (original): a results or delete-result request whose teacher_password
\* differs from the configured teacher credential is answered 401, its response
\* carries no stored record, and the stored sequence is unchanged.
C7_Always401 == [][C7_Step]_vars

\* the delete-result validation of result_id that precedes the credential check
InvalidResultId(req) ==
    /\ req.route = "/api/delete-result"
    /\ \/ ~Truthy(req.body.result_id)
       \/ ~IsString(req.body.result_id)
       \/ Len(req.body.result_id.text) > 100

\* C7 amended, for one step
C7_AmendedStep ==
    WrongTeacherPassword(lastReq') =>
        /\ resp'.status = IF InvalidResultId(lastReq') THEN 400 ELSE 401
        /\ "results" \notin DOMAIN resp'.body
        /\ kv' = kv
        /\ steps' = <<>>

\* C7 amended: a results or delete-result request whose teacher_password differs
\* from the configured teacher credential is answered 401 - or 400 when it is a
\* delete-result request whose result_id is missing, not a string or longer than
\* 100 characters, which is validated first - and in both cases the response
\* carries no stored record and the store is neither read nor written.
C7_WrongCredentialDenied == [][C7_AmendedStep]_vars

\* C7 witness: records are stored and a delete-result request naming one of
\* them with a wrong teacher_password has just been answered 401.
C7_Witness ==
    /\ lastReq.route = "/api/delete-result"
    /\ WrongTeacherPassword(lastReq)
    /\ resp.status = 401
    /\ \E r \in Range(StoredResults(kv)) : JStr(r.id) = lastReq.body.result_id

(***************************************************************************)
(* Claims about the score computation (checked under SpecGrade).           *)
(***************************************************************************)
\* the scores of the latest /api/grade response
Scores == resp.body.scores

IsGradeResponse == lastReq.route = "/api/grade" /\ resp.status = 200

\* C8: Sperrklausel: in every /api/grade response in which both sub-scores are
\* non-null and at least one of them is exactly 0, scores.total is at most 3,
\* for every model response (including one that itself supplies a total).
C8_Sperrklausel ==
    (/\ IsGradeResponse
     /\ IsNumber(Scores.content_textstructure) /\ IsNumber(Scores.language)
     /\ (Scores.content_textstructure.value = 0 \/ Scores.language.value = 0)) =>
        /\ IsNumber(Scores.total)
        /\ Scores.total.value <= 3

\* the model response gives exactly one integer in 0..15 for the content
\* sub-score (c), one for the language sub-score (l), and no total
GivesScores(model, c, l) ==
    IF model.kind = "object"
    THEN /\ \/ model.inhalt_np = JNum(c) /\ model.content_textstructure = JUndefined
            \/ IsNullish(model.inhalt_np) /\ model.content_textstructure = JNum(c)
         /\ \/ model.sprache_np = JNum(l) /\ model.language = JUndefined
            \/ IsNullish(model.sprache_np) /\ model.language = JNum(l)
         /\ IsNullish(model.gesamt_np)
    ELSE /\ model.contentMatch = Match(c)
         /\ model.langMatch = Match(l)
         /\ model.totalMatch = NoMatch

\* round(0.4 c + 0.6 l) as floor((4c + 6l + 5) / 10)
RoundedTotal(c, l) == (4 * c + 6 * l + 5) \div 10

\* C9: when the model response gives integer sub-scores c and l in 0..15 and no
\* total, handleGrade returns total = round(0.4 c + 0.6 l), replaced by
\* min(total, 3) when c = 0 or l = 0, on the JSON path and on the regex
\* fallback path alike; e.g. (4, 6) gives 5 and (0, 6) gives 3.
C9_ScoreFormula ==
    IsGradeResponse =>
        \A c \in 0..15, l \in 0..15 :
            GivesScores(lastReq.model, c, l) =>
                /\ Scores.content_textstructure = JNum(c)
                /\ Scores.language = JNum(l)
                /\ Scores.total =
                       JNum(IF c = 0 \/ l = 0
                            THEN IF RoundedTotal(c, l) < 3 THEN RoundedTotal(c, l) ELSE 3
                            ELSE RoundedTotal(c, l))
                /\ (c = 4 /\ l = 6) => Scores.total = JNum(5)
                /\ (c = 0 /\ l = 6) => Scores.total = JNum(3)

\* C9 witness: the fallback path computed total 3 from captures 0 and 6 (the
\* rounded sum 4 was capped).
C9_Witness ==
    /\ IsGradeResponse
    /\ lastReq.model.kind = "unparsed"
    /\ GivesScores(lastReq.model, 0, 6)
    /\ Scores.total = JNum(3)

(***************************************************************************)
(* Claims about fetch (checked under Spec).                                *)
(***************************************************************************)
\* the steps of a handler: its call, its model call, its store reads and writes
HandlerSteps ==
    { "handleGenerate", "handleGrade", "handleOCR", "handleParseTask",
      "handleModelAnswer", "handleSubmitResult", "handleGetResults",
      "handleDeleteResult", "modelCall", "kvGet", "kvPut" }

RanHandler(s) == \E n \in 1..Len(s) : s[n] \in HandlerSteps

\* s starts with the sequence p
StartsWith(s, p) == Len(s) >= Len(p) /\ SubSeq(s, 1, Len(p)) = p

\* the request does not carry the configured access secret, or none is configured
FailsAuth(req) == env.ACCESS_PASSWORD = "" \/ req.password # env.ACCESS_PASSWORD

\* what C4 says of the request req handled by this step
C4_Checks(req) ==
    /\ StartsWith(steps', <<"checkAuth">>)
    /\ FailsAuth(req) =>
           /\ steps' = <<"checkAuth">>
           /\ resp'.status \in {401, 500}
           /\ rateLimitMap' = rateLimitMap
           /\ requestCounter' = requestCounter
           /\ kv' = kv
    /\ ~FailsAuth(req) =>
           /\ StartsWith(steps', <<"checkAuth", "checkRateLimit">>)
           /\ rlResult' \in {Allowed, Rejected}
           /\ rlResult' = Rejected <=> resp'.status = 429
           /\ rlResult' = Rejected =>
                  /\ steps' = <<"checkAuth", "checkRateLimit">>
                  /\ kv' = kv
           /\ rlResult' = Allowed =>
                  StartsWith(steps', <<"checkAuth", "checkRateLimit",
                                       "cleanupRateLimitMap", "dispatch">>)
    /\ (FailsAuth(req) \/ resp'.status = 429) => ~RanHandler(steps')

\* C4 (original): for every /api/* request, fetch runs the auth check, then the
\* rate-limit check, then dispatch, and a failure at one step skips all later
\* steps: a request that fails auth leaves the rate-limit table and
\* requestCounter unchanged, and a request that fails auth or is Rejected with
\* 429 never runs a handler (no outbound model call, no read or write of the
\* result store).
C4_AuthThenLimitThenDispatch ==
    [][startsWithApi(lastReq'.pathname) => C4_Checks(lastReq')]_vars

\* C4 amended: the same for every /api/* request other than a CORS preflight; a
\* request with method OPTIONS is answered before the auth check: none of the
\* steps runs, and table, counter and store are unchanged.
C4_ExceptPreflight ==
    [][startsWithApi(lastReq'.pathname) =>
          IF lastReq'.method = "OPTIONS"
          THEN /\ steps' = <<>>
               /\ resp' = Preflight
               /\ rateLimitMap' = rateLimitMap
               /\ requestCounter' = requestCounter
               /\ kv' = kv
          ELSE C4_Checks(lastReq')]_vars

\* C4 witness: records are stored, and a well-formed submit-result request with
\* the right access password has just been Rejected with 429 after the auth
\* check and the rate-limit check.
C4_Witness ==
    /\ resp.status = 429
    /\ rlResult = Rejected
    /\ steps = <<"checkAuth", "checkRateLimit">>
    /\ lastReq.pathname = <<"api", "submit-result">>
    /\ lastReq.body = SubmitBody(JStr("Ada"), JNum(7))
    /\ lastReq.password = env.ACCESS_PASSWORD
    /\ Len(StoredResults(kv)) >= 1

(***************************************************************************)
(* Claims about the extractor (checked under SpecExtract).                 *)
(***************************************************************************)
\* C10: extractor round-trip: for every input text that is a strictly valid
\* JSON object string, extractJSON returns an object equal to the strict parse
\* of that text (same keys, same values), no character of a string value
\* added, removed or changed.
C10_RoundTrip ==
    (lastReq.route = "/api/parse-task" /\ resp # NoResponse) =>
        LET text == lastReq.model.text
            strict == JSONparseText(text)
            got == extractJSON(text)
        IN (strict.ok /\ strict.value.type = "object") =>
               /\ ~got.thrown
               /\ got.value = strict.value
               /\ resp = jsonResponse(strict.value, 200)

(***************************************************************************)
(* Claims about errors (checked under Spec).                               *)
(***************************************************************************)
\* the latest request was a POST to the route `name` under /api/
IsPostTo(name) ==
    /\ lastReq # NoRequest
    /\ lastReq.method = "POST"
    /\ lastReq.pathname = <<"api", name>>

\* how often the step `name` occurs in s
Occurrences(s, name) == Cardinality({ n \in 1..Len(s) : s[n] = name })

\* extractJSON threw on the answer of the model to the latest request
ExtractorExhausted ==
    /\ \E name \in {"generate", "grade", "parse-task"} : IsPostTo(name)
    /\ Occurrences(steps, "modelCall") >= 1
    /\ \/ lastReq.io.model = ModelContent(NoValidJson)
       \/ lastReq.io.model.kind = "unparsed"

\* C11: in every handler that uses the extractor (generate, grade, parse-task),
\* when extractJSON exhausts all stages on the model's response the request
\* ends with a failure response (HTTP 500), and exactly one outbound model call
\* was made for that request (no retry).
C11_ExhaustedFails ==
    ExtractorExhausted =>
        /\ resp.status = 500
        /\ Occurrences(steps, "modelCall") = 1

\* C12: an authenticated, non-rate-limited request to a known endpoint path
\* with a method other than POST or OPTIONS is answered 405, and a request to
\* an unknown path is answered 404.
C12_RoutingStatuses ==
    (lastReq # NoRequest /\ lastReq.method # "OPTIONS"
        /\ Occurrences(steps, "dispatch") = 1) =>
        /\ (lastReq.pathname \in Routes /\ lastReq.method # "POST") => resp.status = 405
        /\ lastReq.pathname \notin Routes => resp.status = 404

\* what C13 says of the request req handled by this step
C13_Checks(req) ==
    /\ resp'.status = 500
    /\ resp'.body = [error |-> "Server-Konfigurationsfehler."]
    /\ ~RanHandler(steps')
    /\ rateLimitMap' = rateLimitMap
    /\ kv' = kv

SweepRan == limiterLog'.sweeps # limiterLog.sweeps

\* the entry of ip is older than 5 * W; an identity that made no request for
\* more than 5 * W has such an entry, windowStart being no later than its
\* latest request
StaleEntry(ip) ==
    /\ ip \in DOMAIN rateLimitMap
    /\ now - rateLimitMap[ip].windowStart > 5 * RATE_LIMIT_WINDOW

\* C14, the step part: a sweep at time now deletes every entry with
\* now - windowStart > 5 * W and leaves every other entry as checkRateLimit
\* left it.
C14_SweepStep ==
    SweepRan =>
        LET before == checkRateLimit(rateLimitMap, lastReq'.ip, now).map IN
        /\ DOMAIN rateLimitMap' \subseteq DOMAIN before
        /\ \A ip \in DOMAIN before :
               IF now - before[ip].windowStart > 5 * RATE_LIMIT_WINDOW
               THEN ip \notin DOMAIN rateLimitMap'
               ELSE /\ ip \in DOMAIN rateLimitMap'
                    /\ rateLimitMap'[ip] = before[ip]

\* no request and no advance of the clock is left within the bounds
RequestsStopped == ~ENABLED SweepNext

\* C14, the eventual part, per identity and per hundred n of requestCounter:
\* a stale entry is deleted (or its identity calls again) unless the requests
\* stop before requestCounter reaches the next multiple of 100.
C14_Eventually ==
    \A ip \in Identities : \A n \in 0..(MaxCounter \div CLEANUP_EVERY) :
        (StaleEntry(ip) /\ requestCounter \div CLEANUP_EVERY = n)
            ~> (\/ ~StaleEntry(ip)
                \/ RequestsStopped /\ requestCounter \div CLEANUP_EVERY = n)

\* C14: when a sweep runs at time now, it deletes every entry with
\* now - windowStart > 5*W and leaves every other entry unchanged (same count,
\* same windowStart); and provided requests keep arriving, an entry whose
\* identity makes no request for more than 5*W is eventually deleted.
C14_SweepDeletesStale == [][C14_SweepStep]_vars /\ C14_Eventually

\* C14 witness: a sweep has deleted the stale entry of the client without an
\* address and kept the entry of the client with one as it was.
C14_Witness ==
    /\ limiterLog.sweeps = 1
    /\ requestCounter = CLEANUP_EVERY
    /\ "unknown" \notin DOMAIN rateLimitMap
    /\ "unknown" \in DOMAIN limiterLog.noSweepMap
    /\ now - limiterLog.noSweepMap["unknown"].windowStart > 5 * RATE_LIMIT_WINDOW
    /\ ClientIp \in DOMAIN rateLimitMap
    /\ rateLimitMap[ClientIp] = limiterLog.noSweepMap[ClientIp]

\* C15: the cleanup sweep runs on every 100th call of the rate limiter, counted
\* globally over all identities: after any sequence of k rate-limit checks in
\* total, exactly floor(k / 100) sweeps have run.
C15_SweepEveryHundredChecks ==
    limiterLog.sweeps = limiterLog.checks \div 100

\* C20: cleanup is transparent to rate-limit decisions: the Allowed/Rejected
\* outcome of each request is the same as in a limiter that never runs the
\* sweep, and the sweep never turns the triggering request into a failure.
C20_SweepTransparent ==
    [][limiterLog'.checks # limiterLog.checks =>
          /\ rlResult' = checkRateLimit(limiterLog.noSweepMap, lastReq'.ip, now).result
          /\ SweepRan => rlResult' = Allowed]_vars

\* C20 witness: after the sweep deleted its entry, the client without an
\* address called again and was Allowed, as by the limiter that never sweeps,
\* whose table still held the entry.
C20_Witness ==
    /\ limiterLog.sweeps = 1
    /\ requestCounter = CLEANUP_EVERY + 1
    /\ lastReq = [route |-> "limiter", ip |-> "unknown"]
    /\ rlResult = Allowed
    /\ rateLimitMap["unknown"] = [count |-> 1, windowStart |-> now]
    /\ limiterLog.noSweepMap["unknown"] = rateLimitMap["unknown"]

(***************************************************************************)
(* Claims about requests in flight together (checked under SpecConcurrent). *)
(***************************************************************************)
\* every request that arrived has returned
AllAnswered == \A n \in 1..Len(inflight) : inflight[n].pc = "done"

\* request n was answered with success by the handler of `route`
Succeeded(n, route) ==
    /\ inflight[n].request.method = "POST"
    /\ inflight[n].request.pathname = <<"api", route>>
    /\ inflight[n].out.status = 200

\* the ids of the records deleted, and of the records submitted, with success
DeletedIds ==
    { inflight[n].request.body.result_id.text :
        n \in { k \in 1..Len(inflight) : Succeeded(k, "delete-result") } }
SubmittedIds ==
    { toString36(now) \o inflight[n].request.io.rnd :
        n \in { k \in 1..Len(inflight) : Succeeded(k, "submit-result") } }

\* C16: within a single worker instance, for every interleaving of two
\* concurrent result-store requests (submit/submit or submit/delete) at their
\* I/O suspension points, the stored sequence after both complete contains the
\* effect of both requests: both submitted records are present, and a deleted
\* record is absent (no lost update).
C16_NoLostUpdate ==
    AllAnswered =>
        /\ SubmittedIds \ DeletedIds \subseteq StoredIds(kv)
        /\ DeletedIds \cap StoredIds(kv) = {}

\* C17: for every response, including when several requests are in flight and
\* interleave at I/O suspension points, the Access-Control-Allow-Origin header
\* is the Origin of the request being answered when that Origin is in the
\* allow-list, and the first allow-list entry otherwise.
C17_OwnOrigin ==
    \A n \in 1..Len(inflight) :
        inflight[n].pc = "done" =>
            inflight[n].out.allowOrigin = corsHeaders(inflight[n].origin)

(***************************************************************************)
(* Claims about the stages of the extractor (checked under SpecExtract).   *)
(***************************************************************************)
\* the answer of the model has been passed through extractJSON
Extracted == lastReq.route = "/api/parse-task" /\ resp # NoResponse

\* stage 1 of the text: the fence markers stripped
Stripped(text) == trim(stripFence(stripFence(text, FenceJson), Fence))

\* what each of the stages 2 to 6 gives on its own for the text, in the order
\* of the claim: the direct parse, the parse of the isolated object, of the
\* object with control characters repaired, of the object with quotes
\* repaired, and the salvaged keys (two at least); stages 3 to 6 need the span
StageResults(text) ==
    LET clean == Stripped(text)
        span == matchObject(clean)
        failed == [ok |-> FALSE]
        parsed(r) == IF r.ok THEN [ok |-> TRUE, value |-> r.value] ELSE failed
        keys == salvage(clean)
    IN << parsed(JSONparseText(clean)),
          IF span.matched THEN parsed(JSONparseText(span.text)) ELSE failed,
          IF span.matched THEN parsed(JSONparseText(repairNewlines(span.text, 1)))
          ELSE failed,
          IF span.matched THEN parsed(JSONparseText(repairQuotes(span.text, 1)))
          ELSE failed,
          IF span.matched /\ Cardinality(DOMAIN keys) >= 2
          THEN [ok |-> TRUE, value |-> JObject(keys)] ELSE failed >>

\* C18, for the outcome `got` of extractJSON and the results of the stages
C18_FirstOf(got, stages) ==
    LET succeed == { n \in 1..Len(stages) : stages[n].ok } IN
    IF succeed = {} THEN got.thrown
    ELSE LET first == CHOOSE n \in succeed : \A m \in succeed : n <= m IN
         /\ ~got.thrown
         /\ got.step = first + 1
         /\ got.value = stages[first].value

\* C18: extractJSON runs its stages in the fixed order fence stripping, direct
\* parse, object isolation, control-character repair, quote/escape repair,
\* key-by-key salvage; a stage is attempted only when every earlier stage
\* failed, and the value returned is the result of the first stage that
\* succeeds.
C18_StagesInOrder ==
    Extracted =>
        C18_FirstOf(extractJSON(lastReq.model.text), StageResults(lastReq.model.text))

\* C18 witness: an answer both repairs make parseable, with different values,
\* came back as the control-character repair (stage 4) gives it.
C18_Witness ==
    /\ Extracted
    /\ LET stages == StageResults(lastReq.model.text) IN
       /\ ~stages[1].ok /\ ~stages[2].ok /\ stages[3].ok /\ stages[4].ok
       /\ stages[3].value # stages[4].value
       /\ resp = jsonResponse(stages[3].value, 200)

\* C19, for the outcome `got` of extractJSON, the stripped text and the results
\* of the stages
C19_Terminal(got, clean, stages) ==
    /\ (/\ ~stages[1].ok
        /\ \/ ~matchObject(clean).matched
           \/ /\ ~stages[2].ok /\ ~stages[3].ok /\ ~stages[4].ok
              /\ Cardinality(DOMAIN salvage(clean)) < 2)
       => got = NoValidJson
    /\ (~got.thrown /\ got.step = 6) =>
           /\ got.value = JObject(salvage(clean))
           /\ Cardinality(DOMAIN salvage(clean)) >= 2

\* C19: extractJSON raises the terminal error "Model did not return valid
\* JSON." whenever the fence-stripped text is not directly parseable and either
\* contains no span from an opening to a closing brace, or contains one for
\* which stages 3 to 5 fail and salvage recovers fewer than two distinct keys;
\* salvage returns an object only when it recovered at least two distinct keys.
C19_TerminalError ==
    Extracted =>
        /\ C19_Terminal(extractJSON(lastReq.model.text), Stripped(lastReq.model.text),
                        StageResults(lastReq.model.text))
        /\ extractJSON(lastReq.model.text).thrown => resp.status = 500

\* C19 witness: the answer holds a span that stages 3 to 5 cannot parse and one
\* salvageable key; the terminal error was raised and the request failed.
C19_Witness ==
    /\ Extracted
    /\ matchObject(Stripped(lastReq.model.text)).matched
    /\ Cardinality(DOMAIN salvage(Stripped(lastReq.model.text))) = 1
    /\ extractJSON(lastReq.model.text) = NoValidJson
    /\ resp.status = 500

(***************************************************************************)
(* Claim about the records kept by a submit (checked under SpecStore).     *)
(***************************************************************************)
\* C22 as stated, for one step: a submit-result answered 200 leaves every
\* record that was stored before it in the store.
C22_Step ==
    (lastReq'.route = "/api/submit-result" /\ resp'.status = 200) =>
        \A n \in 1..Len(StoredResults(kv)) :
            \E m \in 1..Len(StoredResults(kv')) :
                StoredResults(kv')[m] = StoredResults(kv)[n]

\* C22: a successful submit-result never loses stored records: for every
\* outcome of the store read (a value, no value, a read error, or a blob that
\* does not parse), every record that was stored before the submit is still
\* stored after it.
C22_SubmitKeepsRecords == [][C22_Step]_vars

(***************************************************************************)
(* Claim about the limiter under concurrent requests (checked under        *)
(* SpecConcurrent).                                                        *)
(***************************************************************************)
\* the requests in flight that are suspended at an await
SuspendedNow == { n \in 1..Len(inflight) : inflight[n].pc # "done" }

\* C21: within a single instance the auth check, the rate-limit check and the
\* cleanup of one request run with no suspension point between them, so for
\* every interleaving of concurrent requests no increment of an entry's count
\* is lost (the count is the number of checks made since the window started,
\* and every request suspended at an await has been counted), and the number of
\* Allowed outcomes for an identity within one window never exceeds Q.
C21_NoLostIncrement ==
    /\ \A ip \in DOMAIN rateLimitMap :
           rateLimitMap[ip].count =
               Cardinality(CallsSince(callLog[ip], rateLimitMap[ip].windowStart))
    /\ \A ip \in Identities :
           /\ (callLog[ip] # <<>>) => ip \in DOMAIN rateLimitMap
           /\ \A i \in 1..Len(callLog[ip]) :
                  Cardinality(AllowedIn(callLog[ip], callLog[ip][i].windowStart,
                                        callLog[ip][i].windowStart + RATE_LIMIT_WINDOW))
                      <= MAX_REQUESTS_PER_WINDOW
    /\ Cardinality(SuspendedNow) <= Cardinality({ i \in 1..Len(callLog[ClientIp]) :
                                                     callLog[ClientIp][i].result = Allowed })

\* C21 witness: two requests of the client are suspended at an await, both were
\* Allowed and used up the quota, and a third that arrived meanwhile was
\* Rejected with 429.
C21_Witness ==
    /\ Cardinality(SuspendedNow) = 2
    /\ \E n \in 1..Len(inflight) :
           /\ inflight[n].pc = "done" /\ inflight[n].out.status = 429
           /\ \E a, b \in SuspendedNow : a < b /\ b < n
    /\ Cardinality(AllowedIn(callLog[ClientIp], 0, RATE_LIMIT_WINDOW))
           = MAX_REQUESTS_PER_WINDOW
    /\ rateLimitMap[ClientIp].count = MAX_REQUESTS_PER_WINDOW + 1

=============================================================================
